---------------------------- MODULE Spec2Model ----------------------------
(***************************************************************************)
(* Model of the .lng translation file subsystem of FreeFileSync            *)
(* (parse_lng.h): the byte scanner, the grammar parser with its validation *)
(* engine, the TranslationUnorderedList collection and generateLng.        *)
(*                                                                         *)
(* Byte streams and texts are TLA+ strings; one character stands for one   *)
(* byte.  Offsets are 0-based like the iterators of the source, so byte i  *)
(* of a stream s is At(s, i + 1).                                          *)
(***************************************************************************)
EXTENDS Integers, Sequences, FiniteSets, TLC

(***************************************************************************)
(* zen string helpers used by parse_lng.h                                  *)
(***************************************************************************)
At(s, i) == SubSeq(s, i, i)

MinOf(S) == CHOOSE m \in S : \A n \in S : m <= n

\* F applied to the value of x
With(x, F(_)) == CHOOSE v \in {F(r) : r \in {x}} : TRUE

\* the least i in lo..hi with Q(i), hi + 1 when there is none
firstIn(lo, hi, Q(_)) ==
    IF \E i \in lo..hi : Q(i)
    THEN CHOOSE i \in lo..hi : Q(i) /\ \A j \in lo..(i - 1) : ~Q(j)
    ELSE hi + 1

\* the greatest i in lo..hi with Q(i), lo - 1 when there is none
lastIn(lo, hi, Q(_)) == hi + lo - firstIn(lo, hi, LAMBDA k : Q(hi + lo - k))

Max2(a, b) == IF a >= b THEN a ELSE b

isWhiteSpace(c) == c \in {" ", "\t", "\n", "\r", "\f"}

isLineBreak(c) == c \in {"\r", "\n"}

startsWith(s, prefix) ==
    Len(prefix) <= Len(s) /\ SubSeq(s, 1, Len(prefix)) = prefix

endsWith(s, postfix) ==
    Len(postfix) <= Len(s) /\ SubSeq(s, Len(s) - Len(postfix) + 1, Len(s)) = postfix

contains(s, term) ==
    \E i \in 1..(Len(s) - Len(term) + 1) : SubSeq(s, i, i + Len(term) - 1) = term

trim(s) ==
    With(s, LAMBDA t :
        SubSeq(t, firstIn(1, Len(t), LAMBDA i : ~isWhiteSpace(At(t, i))),
                  lastIn(1, Len(t), LAMBDA i : ~isWhiteSpace(At(t, i)))))

\* every byte of s[lo..hi] that is at a position of hits replaced by new
RECURSIVE replaceAt(_, _, _, _, _)
replaceAt(s, lo, hi, hits, new) ==
    IF lo > hi THEN ""
    ELSE IF \A h \in hits : h < lo \/ h > hi THEN SubSeq(s, lo, hi)
    ELSE IF lo = hi THEN new
    ELSE replaceAt(s, lo, (lo + hi) \div 2, hits, new)
         \o replaceAt(s, ((lo + hi) \div 2) + 1, hi, hits, new)

\* every byte of s equal to the byte old replaced by new
replaceByte(s, old, new) ==
    With(s, LAMBDA t :
        With({i \in 1..Len(t) : At(t, i) = old}, LAMBDA hits :
            replaceAt(t, 1, Len(t), hits, new)))

\* the occurrences of old replaced by new, from left to right
RECURSIVE replaceTerm(_, _, _)
replaceTerm(s, old, new) ==
    With(s, LAMBDA t :
    With(firstIn(1, Len(t) - Len(old) + 1, LAMBDA i : SubSeq(t, i, i + Len(old) - 1) = old),
         LAMBDA hit :
            IF hit > Len(t) - Len(old) + 1 THEN t
            ELSE SubSeq(t, 1, hit - 1) \o new
                 \o With(SubSeq(t, hit + Len(old), Len(t)),
                         LAMBDA rest : replaceTerm(rest, old, new))))

replaceCpy(s, old, new) ==
    IF Len(old) = 1 THEN replaceByte(s, old, new) ELSE replaceTerm(s, old, new)

countChar(s, c) == Cardinality({i \in 1..Len(s) : At(s, i) = c})

\* beforeFirst / afterFirst with IfNotFoundReturn::none
beforeFirst(s, c) ==
    With(s, LAMBDA t :
    With(firstIn(1, Len(t), LAMBDA i : At(t, i) = c),
         LAMBDA hit : IF hit > Len(t) THEN "" ELSE SubSeq(t, 1, hit - 1)))

afterFirst(s, c) ==
    With(s, LAMBDA t :
    With(firstIn(1, Len(t), LAMBDA i : At(t, i) = c),
         LAMBDA hit : IF hit > Len(t) THEN "" ELSE SubSeq(t, hit + 1, Len(t))))

\* split2: the blocks between the line-break bytes, empty blocks included
RECURSIVE split2(_)
split2(s) ==
    With(firstIn(1, Len(s), LAMBDA i : isLineBreak(At(s, i))),
         LAMBDA hit :
            IF hit > Len(s) THEN <<s>>
            ELSE <<SubSeq(s, 1, hit - 1)>>
                 \o With(SubSeq(s, hit + 1, Len(s)), LAMBDA rest : split2(rest)))

Digits == "0123456789"

isDigit(c) == \E d \in 1..10 : At(Digits, d) = c

digitValue(c) == (CHOOSE d \in 1..10 : At(Digits, d) = c) - 1

RECURSIVE extractDigits(_, _)
extractDigits(s, acc) ==
    IF Len(s) = 0 \/ ~isDigit(At(s, 1)) THEN acc
    ELSE With(<<SubSeq(s, 2, Len(s)), acc * 10 + digitValue(At(s, 1))>>,
              LAMBDA a : extractDigits(a[1], a[2]))

\* stringTo<int>: leading whitespace, an optional sign, then the digits up to
\* the first other byte; it has no error result
stringTo(s) ==
    With(SubSeq(s, firstIn(1, Len(s), LAMBDA i : ~isWhiteSpace(At(s, i))), Len(s)),
         LAMBDA t :
            IF startsWith(t, "-") THEN 0 - extractDigits(SubSeq(t, 2, Len(t)), 0)
            ELSE IF startsWith(t, "+") THEN extractDigits(SubSeq(t, 2, Len(t)), 0)
            ELSE extractDigits(t, 0))

RECURSIVE natTo(_)
natTo(n) ==
    IF n < 10 THEN At(Digits, n + 1)
    ELSE natTo(n \div 10) \o At(Digits, (n % 10) + 1)

numberTo(n) == IF n < 0 THEN "-" \o natTo(0 - n) ELSE natTo(n)

\* the byte 0xFF, which no valid UTF-8 text holds, is written "~"
InvalidUtfByte == "~"

isValidUtf(s) == ~contains(s, InvalidUtfByte)

\* the three bytes EF BB BF are written "{|}"
BYTE_ORDER_MARK_UTF8 == "{|}"

(***************************************************************************)
(* KnownTokens                                                             *)
(***************************************************************************)
\* a tag table in which the tag of empty is a prefix of the tag of source
tokensSharedPrefix_ ==
    [header |-> "<header>", source |-> "<source>", target |-> "<target>",
     empty  |-> "<sou",     plural |-> "<pluralform>"]

tokens_ ==
    [header |-> "<header>", source |-> "<source>", target |-> "<target>",
     empty  |-> "<empty>",  plural |-> "<pluralform>"]

\* one iteration order of the tag table
getList == <<"header", "source", "target", "empty", "plural">>

(***************************************************************************)
(* Scanner                                                                 *)
(***************************************************************************)
ScannerInit(stream) ==
    IF startsWith(stream, BYTE_ORDER_MARK_UTF8) THEN Len(BYTE_ORDER_MARK_UTF8) ELSE 0

startsWithAt(stream, pos, prefix) ==
    pos + Len(prefix) <= Len(stream)
    /\ SubSeq(stream, pos + 1, pos + Len(prefix)) = prefix

startsWithKnownTag(stream, pos) ==
    \E i \in 1..Len(getList) : startsWithAt(stream, pos, tokens_[getList[i]])

\* normalize without the trimming of both ends
normalizeUntrimmed(text) == replaceCpy(replaceCpy(text, "\r\n", "\n"), "\r", "\n")

\* normalize replacing the Windows line breaks only
normalizeCrLfOnly(text) == replaceCpy(trim(text), "\r\n", "\n")

normalize(text) == replaceCpy(replaceCpy(trim(text), "\r\n", "\n"), "\r", "\n")

\* the first tag of the table, in its iteration order, that the stream has at
\* p; 0 when it has none
matchTag(stream, p) ==
    firstIn(1, Len(getList), LAMBDA i : startsWithAt(stream, p, tokens_[getList[i]]))
        % (Len(getList) + 1)

\* a text token that leaves the position at its first byte
textTokenStuck(stream, p, e) ==
    [type |-> "text", text |-> normalize(SubSeq(stream, p + 1, e)), pos |-> p, begin |-> p]

\* the text token from p to e, or the end token when its text is empty and e
\* is the end of the stream
textToken(stream, p, e) ==
    With(normalize(SubSeq(stream, p + 1, e)),
         LAMBDA text :
            IF text = "" /\ e = Len(stream)
            THEN [type |-> "end", text |-> "", pos |-> e, begin |-> p]
            ELSE [type |-> "text", text |-> text, pos |-> e, begin |-> p])

\* the token that starts at p, the first byte after the whitespace
tokenAt(stream, p) ==
    IF p = Len(stream) THEN [type |-> "end", text |-> "", pos |-> p, begin |-> p]
    ELSE With(matchTag(stream, p),
              LAMBDA m :
                 IF m # 0
                 THEN [type |-> getList[m], text |-> "",
                       pos |-> p + Len(tokens_[getList[m]]), begin |-> p]
                 ELSE With(firstIn(p + 1, Len(stream) - 1,
                                   LAMBDA i : At(stream, i + 1) = "<"
                                              /\ startsWithKnownTag(stream, i)),
                           LAMBDA e : textToken(stream, p, e)))

\* getNextToken without the skipping of whitespace
getNextTokenNoSkip(stream, pos) == tokenAt(stream, pos)

\* the token at or after pos: its type and text, the position after it (pos)
\* and the position of its first byte (begin)
getNextToken(stream, pos) ==
    With(firstIn(pos, Len(stream) - 1, LAMBDA i : ~isWhiteSpace(At(stream, i + 1))),
         LAMBDA p : tokenAt(stream, p))

\* posRow counting the new lines only
posRowNewLines(stream, pos) == countChar(SubSeq(stream, 1, pos), "\n")

posRow(stream, pos) ==
    Max2(countChar(SubSeq(stream, 1, pos), "\r"), countChar(SubSeq(stream, 1, pos), "\n"))

posCol(stream, pos) == pos - lastIn(1, pos, LAMBDA i : isLineBreak(At(stream, i)))

(***************************************************************************)
(* plural::PluralFormInfo (parse_plural.h): the evaluator of the plural    *)
(* rule.  Its contract: the form count, for each slot whether exactly one  *)
(* number selects it, and the first number that selects it; construction   *)
(* fails (InvalidPluralForm) when the rule and the declared count do not   *)
(* agree.  The rules known here are the two-form rule and the one-form     *)
(* rule.                                                                   *)
(***************************************************************************)
RuleTwoForms == "n == 1 ? 0 : 1"

RuleOneForm == "0"

isValidPluralForm(definition, count) ==
    \/ definition = RuleTwoForms /\ count = 2
    \/ definition = RuleOneForm  /\ count = 1

PluralFormInfo(definition, count) ==
    IF definition = RuleTwoForms
    THEN [count |-> 2, single |-> <<TRUE, FALSE>>, first |-> <<1, 0>>]
    ELSE [count |-> 1, single |-> <<FALSE>>, first |-> <<0>>]

\* the accessors of the evaluator; a slot the rule does not have is no
\* single-number form
getCount(pluralInfo) == pluralInfo.count

isSingleNumberForm(pluralInfo, pos) ==
    pos < Len(pluralInfo.single) /\ pluralInfo.single[pos + 1]

getFirstNumber(pluralInfo, pos) ==
    IF pos < Len(pluralInfo.first) THEN pluralInfo.first[pos + 1] ELSE 0

(***************************************************************************)
(* LngParser: validation of one entry.  Each operator returns the message  *)
(* of the ParsingError thrown, "" when none is thrown.                     *)
(***************************************************************************)
ampersandTokenCount(str) == countChar(replaceCpy(str, "&&", ""), "&")

endsWithSingleAmp(s) == endsWith(s, "&") /\ ~endsWith(s, "&&")

\* the narrow ellipsis E2 80 A6 is written "^E_"
endsWithEllipsis(s) == endsWith(s, "...") \/ endsWith(s, "^E_")

\* the chinese colon EF BC 9A is written "^C_"
endsWithColon(s) == endsWith(s, ":") \/ endsWith(s, "^C_")

\* the hindi period E0 A5 A4 is written "^H_", the chinese period E3 80 82 "^P_"
endsWithSingleDot(s) ==
    /\ (endsWith(s, ".") \/ endsWith(s, "^H_") \/ endsWith(s, "^P_"))
    /\ ~endsWith(s, "..") /\ ~endsWith(s, "^H_^H_") /\ ~endsWith(s, "^P_^P_")

FixedStrSingular ==
    <<"FreeFileSync", "RealTimeSync", "ffs_gui", "ffs_batch", "ffs_real", "ffs_tmp",
      "GlobalSettings.xml">>

FixedStrPlural ==
    <<"FreeFileSync", "RealTimeSync", "ffs_gui", "ffs_batch", "ffs_tmp",
      "GlobalSettings.xml">>

PunctChars == ".!?:;$#"

MsgSpaceBefore(c) ==
    "Text contains a space before the \"" \o c \o "\" character. Are line-breaks really allowed here?"
    \o " Maybe this should be a \"non-breaking space\" (Windows: Alt 0160    UTF8: 0xC2 0xA0)?"

MsgAmpCount ==
    "Source and translation both need exactly one & character to mark a menu item access key or none at all"

MsgAmpEnd == "The & character to mark a menu item access key must not occur at the end of a string"

MsgColon == "Source text ends with a colon character \":\", but translation does not"

MsgDot == "Source text ends with a punctuation mark character \".\", but translation does not"

MsgEllipsis == "Source text ends with an ellipsis \"...\", but translation does not"

\* validation without the placeholder check
checkPlaceholderSkipped(original, translation, placeholder) == ""

\* if original contains placeholder, so must translation
checkPlaceholder(original, translation, placeholder) ==
    IF contains(original, placeholder) /\ ~contains(translation, placeholder)
    THEN "Placeholder " \o placeholder \o " missing in translation"
    ELSE ""

\* the checks of a singular entry that has a translation
checkTranslated(original, translation) ==
    LET missing(ph) == checkPlaceholder(original, translation, ph) # ""
        fixedBad    == {i \in 1..Len(FixedStrSingular) :
                           contains(original, FixedStrSingular[i])
                           /\ ~contains(translation, FixedStrSingular[i])}
        punctBad    == {i \in 1..Len(PunctChars) :
                           contains(original, " " \o At(PunctChars, i))
                           \/ contains(translation, " " \o At(PunctChars, i))}
    IN  IF missing("%x") THEN checkPlaceholder(original, translation, "%x")
        ELSE IF missing("%y") THEN checkPlaceholder(original, translation, "%y")
        ELSE IF missing("%z") THEN checkPlaceholder(original, translation, "%z")
        ELSE IF ~contains(original, "\n") /\ contains(translation, "\n")
             THEN "Source text is a one-liner, but translation consists of multiple lines"
        ELSE IF ampersandTokenCount(original) > 1
                \/ ampersandTokenCount(original) # ampersandTokenCount(translation)
             THEN MsgAmpCount
        ELSE IF endsWithSingleAmp(original) \/ endsWithSingleAmp(translation) THEN MsgAmpEnd
        ELSE IF endsWithColon(original) /\ ~endsWithColon(translation) THEN MsgColon
        ELSE IF endsWithSingleDot(original) /\ ~endsWithSingleDot(translation) THEN MsgDot
        ELSE IF endsWithEllipsis(original) /\ ~endsWithEllipsis(translation) THEN MsgEllipsis
        ELSE IF fixedBad # {}
             THEN "Misspelled \"" \o FixedStrSingular[MinOf(fixedBad)] \o "\" in translation"
        ELSE IF punctBad # {} THEN MsgSpaceBefore(At(PunctChars, MinOf(punctBad)))
        ELSE ""

\* validation that runs the checks on an untranslated entry too
validateSingularAlways(original, translation) ==
    IF original = "" THEN "Translation source text is empty"
    ELSE IF ~isValidUtf(original) THEN "Translation source text contains UTF-8 encoding error"
    ELSE IF ~isValidUtf(translation) THEN "Translation text contains UTF-8 encoding error"
    ELSE checkTranslated(original, translation)

validateSingular(original, translation) ==
    IF original = "" THEN "Translation source text is empty"
    ELSE IF ~isValidUtf(original) THEN "Translation source text contains UTF-8 encoding error"
    ELSE IF ~isValidUtf(translation) THEN "Translation text contains UTF-8 encoding error"
    ELSE IF translation = "" THEN ""
    ELSE checkTranslated(original, translation)

\* validation without the check of the number of plural forms
formCountErrorNone(translation, pluralInfo) == ""

\* check for invalid number of plural forms
formCountError(translation, pluralInfo) ==
    IF getCount(pluralInfo) # Len(translation)
    THEN "Invalid number of plural forms; actual: " \o numberTo(Len(translation))
         \o ", expected: " \o numberTo(getCount(pluralInfo))
    ELSE ""

\* validation without the per-slot check
slotErrorNone(original, translation, pluralInfo, pos) == ""

\* the check of the plural form at index position pos
slotError(original, translation, pluralInfo, pos) ==
    IF isSingleNumberForm(pluralInfo, pos)
    THEN IF (contains(original[1], "%x") \/ contains(original[1], "1"))
            /\ ~contains(translation[pos + 1], "%x")
            /\ ~contains(translation[pos + 1], numberTo(getFirstNumber(pluralInfo, pos)))
         THEN "Plural form translation at index position " \o numberTo(pos)
              \o " needs to use the decimal number "
              \o numberTo(getFirstNumber(pluralInfo, pos)) \o " or the %x placeholder"
         ELSE ""
    ELSE IF ~contains(translation[pos + 1], "%x")
         THEN "Plural form at index position " \o numberTo(pos)
              \o " is missing the %x placeholder"
         ELSE ""

validatePlural(original, translation, pluralInfo) ==
    LET allTexts == <<original[1], original[2]>> \o translation
        all(Q(_)) == \A i \in 1..Len(allTexts) : Q(allTexts[i])
        n        == Len(translation)
        \* a form without %x that occurs again later: the index of its first repetition
        dupOf(i) == {j \in (i + 1)..n : translation[j] = translation[i]}
        dups     == {i \in 1..n : ~contains(translation[i], "%x") /\ dupOf(i) # {}}
        slots    == {i \in 1..n : slotError(original, translation, pluralInfo, i - 1) # ""}
        secondary(ph) ==
            (contains(original[1], ph) \/ contains(original[2], ph))
            /\ ~all(LAMBDA t : contains(t, ph))
        ampCount == ampersandTokenCount(original[1])
        ampOk(t) == ~(ampCount > 1 \/ ampersandTokenCount(t) # ampCount)
        fixedBad == {i \in 1..Len(FixedStrPlural) :
                        (contains(original[1], FixedStrPlural[i])
                            \/ contains(original[2], FixedStrPlural[i]))
                        /\ \E k \in 1..Len(allTexts) : ~contains(allTexts[k], FixedStrPlural[i])}
        punctBad == {i \in 1..Len(PunctChars) :
                        \E k \in 1..Len(allTexts) : contains(allTexts[k], " " \o At(PunctChars, i))}
    IN  IF original[1] = "" \/ original[2] = "" THEN "Translation source text is empty"
        ELSE IF \E k \in 1..Len(allTexts) : ~isValidUtf(allTexts[k])
             THEN "Text contains UTF-8 encoding error"
        ELSE IF ~contains(original[2], "%x")
             THEN "Plural form source text does not contain %x placeholder"
        ELSE IF n = 0 THEN ""
        ELSE IF formCountError(translation, pluralInfo) # ""
             THEN formCountError(translation, pluralInfo)
        ELSE IF dups # {}
             THEN "Duplicate plural form translation at index position "
                  \o numberTo(MinOf(dupOf(MinOf(dups))) - 1)
        ELSE IF slots # {}
             THEN slotError(original, translation, pluralInfo, MinOf(slots) - 1)
        ELSE IF secondary("%y") THEN "Placeholder %y missing in text"
        ELSE IF secondary("%z") THEN "Placeholder %z missing in text"
        ELSE IF ~contains(original[1], "\n") /\ ~contains(original[2], "\n")
                /\ \E i \in 1..n : contains(translation[i], "\n")
             THEN "Source text is a one-liner, but at least one plural form translation consists of multiple lines"
        ELSE IF \E k \in 1..Len(allTexts) : ~ampOk(allTexts[k]) THEN MsgAmpCount
        ELSE IF \E k \in 1..Len(allTexts) : endsWithSingleAmp(allTexts[k]) THEN MsgAmpEnd
        ELSE IF (endsWith(original[1], ":") \/ endsWith(original[2], ":"))
                /\ \E k \in 1..Len(allTexts) : ~endsWithColon(allTexts[k])
             THEN MsgColon
        ELSE IF (endsWithSingleDot(original[1]) \/ endsWithSingleDot(original[2]))
                /\ \E k \in 1..Len(allTexts) : ~endsWithSingleDot(allTexts[k])
             THEN MsgDot
        ELSE IF (endsWithEllipsis(original[1]) \/ endsWithEllipsis(original[2]))
                /\ \E k \in 1..Len(allTexts) : ~endsWithEllipsis(allTexts[k])
             THEN MsgEllipsis
        ELSE IF fixedBad # {}
             THEN "Misspelled \"" \o FixedStrPlural[MinOf(fixedBad)] \o "\" in translation"
        ELSE IF punctBad # {} THEN MsgSpaceBefore(At(PunctChars, MinOf(punctBad)))
        ELSE ""

(***************************************************************************)
(* LngParser.  A parser state P holds the scanner position (pos), the      *)
(* current token (tk) and the position of that token's first byte (begin). *)
(***************************************************************************)
NoError == [msg |-> "", row |-> 0, col |-> 0]

ParsingError(msg, stream, P) ==
    [msg |-> msg, row |-> posRow(stream, P.pos), col |-> posCol(stream, P.pos)]

nextToken(stream, P) ==
    With(getNextToken(stream, P.pos),
         LAMBDA t : [pos |-> t.pos, tk |-> [type |-> t.type, text |-> t.text],
                     begin |-> t.begin])

\* LngParser(byteStream): scn_(byteStream), tk_(scn_.getNextToken())
LngParser(stream) ==
    nextToken(stream, [pos |-> ScannerInit(stream), tk |-> [type |-> "end", text |-> ""],
                       begin |-> 0])

TransHeader ==
    [languageName |-> "", translatorName |-> "", locale |-> "", flagFile |-> "",
     pluralCount |-> 0, pluralDefinition |-> ""]

EmptyMap == << >>

\* an insertion that overwrites the value of a key the map has
emplaceOverwrite(map, key, value) ==
    [k \in DOMAIN map \cup {key} |-> IF k = key THEN value ELSE map[k]]

emplace(map, key, value) == IF key \in DOMAIN map THEN map ELSE map @@ (key :> value)

\* the name |-> value records of the header text, the first record of a name kept
RECURSIVE headerItems(_, _)
headerItems(blocks, items) ==
    IF blocks = << >> THEN items
    ELSE With(<<Head(blocks), Tail(blocks), trim(beforeFirst(Head(blocks), ":"))>>,
              LAMBDA b :
                 With(<<b[2], IF b[3] = "" THEN items
                              ELSE emplace(items, b[3], trim(afterFirst(b[1], ":")))>>,
                      LAMBDA next : headerItems(next[1], next[2])))

\* parseHeader reading translator before plural_count and plural_definition
headerFieldsTranslatorFirst(stream, P2, items, header) ==
    LET has(name) == name \in DOMAIN items
        throw(name, h) ==
            [err |-> ParsingError("Cannot find header item \"" \o name \o ":\"", stream, P2),
             P |-> P2, header |-> h]
        h1 == [header EXCEPT !.languageName = items["language"]]
        h2 == [h1 EXCEPT !.locale = items["locale"]]
        h3 == [h2 EXCEPT !.flagFile = items["image"]]
        h4 == [h3 EXCEPT !.translatorName = items["translator"]]
        h5 == [h4 EXCEPT !.pluralCount = stringTo(items["plural_count"])]
        h6 == [h5 EXCEPT !.pluralDefinition = items["plural_definition"]]
    IN  IF ~has("language") THEN throw("language", header)
        ELSE IF ~has("locale") THEN throw("locale", h1)
        ELSE IF ~has("image") THEN throw("image", h2)
        ELSE IF ~has("translator") THEN throw("translator", h3)
        ELSE IF ~has("plural_count") THEN throw("plural_count", h4)
        ELSE IF ~has("plural_definition") THEN throw("plural_definition", h5)
        ELSE [err |-> NoError, P |-> P2, header |-> h6]

\* parseHeader: the fields are assigned one after the other, so a missing item
\* leaves the fields before it assigned
headerFields(stream, P2, items, header) ==
    LET has(name) == name \in DOMAIN items
        throw(name, h) ==
            [err |-> ParsingError("Cannot find header item \"" \o name \o ":\"", stream, P2),
             P |-> P2, header |-> h]
        h1 == [header EXCEPT !.languageName = items["language"]]
        h2 == [h1 EXCEPT !.locale = items["locale"]]
        h3 == [h2 EXCEPT !.flagFile = items["image"]]
        h4 == [h3 EXCEPT !.pluralCount = stringTo(items["plural_count"])]
        h5 == [h4 EXCEPT !.pluralDefinition = items["plural_definition"]]
        h6 == [h5 EXCEPT !.translatorName = items["translator"]]
    IN  IF ~has("language") THEN throw("language", header)
        ELSE IF ~has("locale") THEN throw("locale", h1)
        ELSE IF ~has("image") THEN throw("image", h2)
        ELSE IF ~has("plural_count") THEN throw("plural_count", h3)
        ELSE IF ~has("plural_definition") THEN throw("plural_definition", h4)
        ELSE IF ~has("translator") THEN throw("translator", h5)
        ELSE [err |-> NoError, P |-> P2, header |-> h6]

\* parseHeader that constructs the evaluator of the plural rule as parse does
parseHeaderWithRule(stream, P0, header) ==
    IF P0.tk.type # "header"
    THEN [err |-> ParsingError("Unexpected token", stream, P0), P |-> P0, header |-> header]
    ELSE
    With(nextToken(stream, P0), LAMBDA P1 :
    IF P1.tk.type # "text"
    THEN [err |-> ParsingError("Unexpected token", stream, P1), P |-> P1, header |-> header]
    ELSE
    With(<<nextToken(stream, P1), headerItems(split2(P1.tk.text), EmptyMap)>>, LAMBDA a :
    With(headerFields(stream, a[1], a[2], header), LAMBDA r :
    IF r.err = NoError /\ ~isValidPluralForm(r.header.pluralDefinition, r.header.pluralCount)
    THEN [err |-> ParsingError("Invalid plural form definition", stream, r.P),
          P |-> r.P, header |-> header]
    ELSE r)))

parseHeader(stream, P0, header) ==
    IF P0.tk.type # "header"
    THEN [err |-> ParsingError("Unexpected token", stream, P0), P |-> P0, header |-> header]
    ELSE
    With(nextToken(stream, P0), LAMBDA P1 :
    IF P1.tk.type # "text"
    THEN [err |-> ParsingError("Unexpected token", stream, P1), P |-> P1, header |-> header]
    ELSE
    With(<<nextToken(stream, P1), headerItems(split2(P1.tk.text), EmptyMap)>>, LAMBDA a :
    headerFields(stream, a[1], a[2], header)))

\* the arguments of a call of validateTranslation; kind "none" when it is not
\* called
NoArgs ==
    [kind |-> "none", orig |-> "", trans |-> "", pair |-> <<"", "">>, forms |-> << >>]

SingularArgs(original, translation) ==
    [kind |-> "singular", orig |-> original, trans |-> translation,
     pair |-> <<"", "">>, forms |-> << >>]

PluralArgs(original, translation) ==
    [kind |-> "plural", orig |-> "", trans |-> "", pair |-> original,
     forms |-> translation]

\* The result of parsing one entry: the error thrown (NoError when none), the
\* parser state, the entry that is emplaced (kind "none" when thrown) and the
\* texts that were passed to validateTranslation (args).
Thrown(msg, stream, P) ==
    [err |-> ParsingError(msg, stream, P), P |-> P, kind |-> "none",
     orig |-> "", trans |-> "", pair |-> <<"", "">>, forms |-> << >>, args |-> NoArgs]

\* the plural forms after <target>: (<pluralform> text)*
RECURSIVE pluralList(_, _, _)
pluralList(stream, P, forms) ==
    IF P.tk.type # "plural" THEN [ok |-> TRUE, P |-> P, forms |-> forms]
    ELSE With(nextToken(stream, P), LAMBDA P1 :
         IF P1.tk.type # "text" THEN [ok |-> FALSE, P |-> P1, forms |-> forms]
         ELSE With(<<nextToken(stream, P1), Append(forms, P1.tk.text)>>,
                   LAMBDA a : pluralList(stream, a[1], a[2])))

finishPlural(stream, P5, original, forms, pluralInfo) ==
    With(validatePlural(original, forms, pluralInfo), LAMBDA msg :
    IF msg # ""
    THEN [Thrown(msg, stream, P5) EXCEPT !.args = PluralArgs(original, forms)]
    ELSE [err |-> NoError, P |-> P5, kind |-> "plural",
          orig |-> "", trans |-> "", pair |-> original, forms |-> forms,
          args |-> PluralArgs(original, forms)])

\* TokenType::source already consumed
parsePlural(stream, P0, pluralInfo) ==
    IF P0.tk.type # "plural" THEN Thrown("Unexpected token", stream, P0) ELSE
    With(nextToken(stream, P0), LAMBDA P1 :
    IF P1.tk.type # "text" THEN Thrown("Unexpected token", stream, P1) ELSE
    With(nextToken(stream, P1), LAMBDA P2 :
    IF P2.tk.type # "plural" THEN Thrown("Unexpected token", stream, P2) ELSE
    With(nextToken(stream, P2), LAMBDA P3 :
    IF P3.tk.type # "text" THEN Thrown("Unexpected token", stream, P3) ELSE
    With(nextToken(stream, P3), LAMBDA P4 :
    IF P4.tk.type # "target" THEN Thrown("Unexpected token", stream, P4) ELSE
    With(nextToken(stream, P4), LAMBDA P4a :
    With(pluralList(stream, P4a, << >>), LAMBDA L :
    IF ~L.ok THEN Thrown("Unexpected token", stream, L.P) ELSE
    IF L.forms # << >>
    THEN finishPlural(stream, L.P, <<P1.tk.text, P3.tk.text>>, L.forms, pluralInfo) ELSE
    IF L.P.tk.type # "empty" THEN Thrown("Unexpected token", stream, L.P) ELSE
    With(nextToken(stream, L.P), LAMBDA P5 :
    finishPlural(stream, P5, <<P1.tk.text, P3.tk.text>>, L.forms, pluralInfo))))))))

\* parseRegular emplacing the entry without validating it
finishSingularUnchecked(stream, P4, original, translation) ==
    [err |-> NoError, P |-> P4, kind |-> "singular",
     orig |-> original, trans |-> translation, pair |-> <<"", "">>, forms |-> << >>,
     args |-> SingularArgs(original, translation)]

finishSingular(stream, P4, original, translation) ==
    With(validateSingular(original, translation), LAMBDA msg :
    IF msg # ""
    THEN [Thrown(msg, stream, P4) EXCEPT !.args = SingularArgs(original, translation)]
    ELSE [err |-> NoError, P |-> P4, kind |-> "singular",
          orig |-> original, trans |-> translation, pair |-> <<"", "">>, forms |-> << >>,
          args |-> SingularArgs(original, translation)])

\* parseRegular taking a <target> that nothing follows as an empty translation
parseRegularTargetOptional(stream, P0, pluralInfo) ==
    IF P0.tk.type # "source" THEN Thrown("Unexpected token", stream, P0) ELSE
    With(nextToken(stream, P0), LAMBDA P1 :
    IF P1.tk.type = "plural" THEN parsePlural(stream, P1, pluralInfo) ELSE
    IF P1.tk.type # "text" THEN Thrown("Unexpected token", stream, P1) ELSE
    With(nextToken(stream, P1), LAMBDA P2 :
    IF P2.tk.type # "target" THEN Thrown("Unexpected token", stream, P2) ELSE
    With(nextToken(stream, P2), LAMBDA P3 :
    IF P3.tk.type # "text" /\ P3.tk.type # "empty"
    THEN finishSingular(stream, P3, P1.tk.text, "") ELSE
    With(nextToken(stream, P3), LAMBDA P4 :
    finishSingular(stream, P4, P1.tk.text,
                   IF P3.tk.type = "text" THEN P3.tk.text ELSE "")))))

parseRegular(stream, P0, pluralInfo) ==
    IF P0.tk.type # "source" THEN Thrown("Unexpected token", stream, P0) ELSE
    With(nextToken(stream, P0), LAMBDA P1 :
    IF P1.tk.type = "plural" THEN parsePlural(stream, P1, pluralInfo) ELSE
    IF P1.tk.type # "text" THEN Thrown("Unexpected token", stream, P1) ELSE
    With(nextToken(stream, P1), LAMBDA P2 :
    IF P2.tk.type # "target" THEN Thrown("Unexpected token", stream, P2) ELSE
    With(nextToken(stream, P2), LAMBDA P3 :
    IF P3.tk.type # "text" /\ P3.tk.type # "empty"
    THEN Thrown("Unexpected token", stream, P3) ELSE
    With(nextToken(stream, P3), LAMBDA P4 :
    finishSingular(stream, P4, P1.tk.text,
                   IF P3.tk.type = "text" THEN P3.tk.text ELSE "")))))

(***************************************************************************)
(* TranslationUnorderedList.  A collection L holds sequence_, the two      *)
(* uniqueness sets and the two maps of the prior parse.                    *)
(***************************************************************************)
SingularItem(orig, trans) == [kind |-> "singular", orig |-> orig, trans |-> trans]

PluralItem(pair, forms) == [kind |-> "plural", pair |-> pair, forms |-> forms]

TranslationUnorderedList(transOld, transPluralOld) ==
    [sequence_ |-> << >>, transUnique_ |-> {}, pluralUnique_ |-> {},
     transOld_ |-> transOld, transPluralOld_ |-> transPluralOld]

\* addItem without the check of transUnique_
addItemUnchecked(L, orig) ==
    [L EXCEPT
        !.transUnique_ = @ \cup {orig},
        !.sequence_ =
            Append(@, IF orig \in DOMAIN L.transOld_ /\ L.transOld_[orig] # ""
                      THEN SingularItem(orig, L.transOld_[orig])
                      ELSE SingularItem(orig, ""))]

addItem(L, orig) ==
    IF orig \in L.transUnique_ THEN L
    ELSE [L EXCEPT
            !.transUnique_ = @ \cup {orig},
            !.sequence_ =
                Append(@, IF orig \in DOMAIN L.transOld_ /\ L.transOld_[orig] # ""
                          THEN SingularItem(orig, L.transOld_[orig])
                          ELSE SingularItem(orig, ""))]

\* addItem of a plural pair that never takes the old translation
addItemPluralUnseeded(L, orig) ==
    IF orig \in L.pluralUnique_ THEN L
    ELSE [L EXCEPT
            !.pluralUnique_ = @ \cup {orig},
            !.sequence_ = Append(@, PluralItem(orig, << >>))]

addItemPlural(L, orig) ==
    IF orig \in L.pluralUnique_ THEN L
    ELSE [L EXCEPT
            !.pluralUnique_ = @ \cup {orig},
            !.sequence_ =
                Append(@, IF orig \in DOMAIN L.transPluralOld_ /\ L.transPluralOld_[orig] # << >>
                          THEN PluralItem(orig, L.transPluralOld_[orig])
                          ELSE PluralItem(orig, << >>))]

hasTranslation(item) ==
    IF item.kind = "singular" THEN item.trans # "" ELSE item.forms # << >>

untranslatedTextExists(L) ==
    \E i \in 1..Len(L.sequence_) : ~hasTranslation(L.sequence_[i])

(***************************************************************************)
(* generateLng                                                             *)
(***************************************************************************)
headerLines(header) ==
    tokens_["header"] \o "\n"
    \o "\t" \o "language: " \o header.languageName \o "\n"
    \o "\t" \o "locale: " \o header.locale \o "\n"
    \o "\t" \o "image: " \o header.flagFile \o "\n"
    \o "\t" \o "plural_count: " \o numberTo(header.pluralCount) \o "\n"
    \o "\t" \o "plural_definition: " \o header.pluralDefinition \o "\n"
    \o "\t" \o "translator: " \o header.translatorName

\* the first visitor without the <empty> tag of an untranslated item
onTransNoEmptyTag(orig, trans) ==
    "\n\n" \o tokens_["source"] \o " " \o orig \o "\n"
    \o (IF contains(orig, "\n") THEN "\n" ELSE "")
    \o tokens_["target"] \o " " \o trans

\* the text the first visitor appends for a singular item
onTrans(orig, trans) ==
    "\n\n" \o tokens_["source"] \o " " \o orig \o "\n"
    \o (IF contains(orig, "\n") THEN "\n" ELSE "")
    \o tokens_["target"] \o " " \o trans
    \o (IF trans = "" THEN tokens_["empty"] ELSE "")

RECURSIVE formLines(_)
formLines(forms) ==
    IF forms = << >> THEN ""
    ELSE "\n\t" \o tokens_["plural"] \o " " \o Head(forms) \o formLines(Tail(forms))

\* the text the second visitor appends for a plural item
onPluralTrans(pair, forms) ==
    "\n\n" \o tokens_["source"] \o "\n"
    \o "\t" \o tokens_["plural"] \o " " \o pair[1] \o "\n"
    \o "\t" \o tokens_["plural"] \o " " \o pair[2] \o "\n"
    \o tokens_["target"]
    \o formLines(forms)
    \o (IF forms = << >> THEN " " \o tokens_["empty"] ELSE "")

itemText(item) ==
    IF item.kind = "singular" THEN onTrans(item.orig, item.trans)
    ELSE onPluralTrans(item.pair, item.forms)

\* visitItems: the items in the order of sequence_; an item goes to topLines
\* (top = TRUE) when untranslatedToTop is set and it has no translation, to
\* mainLines otherwise
RECURSIVE visitItems(_, _, _)
visitItems(seq, untranslatedToTop, top) ==
    IF seq = << >> THEN ""
    ELSE (IF (untranslatedToTop /\ ~hasTranslation(Head(seq))) = top
          THEN itemText(Head(seq)) ELSE "")
         \o visitItems(Tail(seq), untranslatedToTop, top)

\* headerLines + mainLines + topLines
generateTextMainFirst(L, header, untranslatedToTop) ==
    headerLines(header)
    \o visitItems(L.sequence_, untranslatedToTop, FALSE)
    \o visitItems(L.sequence_, untranslatedToTop, TRUE)

\* headerLines + topLines + mainLines, before the line breaks are converted
generateText(L, header, untranslatedToTop) ==
    headerLines(header)
    \o visitItems(L.sequence_, untranslatedToTop, TRUE)
    \o visitItems(L.sequence_, untranslatedToTop, FALSE)

\* assert(!contains(output, "\r\n") && !contains(output, "\r"))
generateAssert(output) == ~contains(output, "\r\n") /\ ~contains(output, "\r")

\* generateLng returning the text before the line breaks are converted
generateLngUnconverted(L, header, untranslatedToTop) ==
    generateText(L, header, untranslatedToTop)

generateLng(L, header, untranslatedToTop) ==
    replaceCpy(generateText(L, header, untranslatedToTop), "\n", "\r\n")

(***************************************************************************)
(* The inputs of the model                                                 *)
(***************************************************************************)
MaxAdds == 3

HeaderKeys ==
    <<"language", "locale", "image", "plural_count", "plural_definition", "translator">>

HeaderValues ==
    [language |-> "E", locale |-> "e", image |-> "i", plural_count |-> "2",
     plural_definition |-> RuleTwoForms, translator |-> "Z"]

\* the header of a file: the key: value lines of the keys in K, in the fixed
\* order, with the given value of plural_count
RECURSIVE headerText(_, _, _)
headerText(K, i, pluralCount) ==
    IF i > Len(HeaderKeys) THEN ""
    ELSE (IF HeaderKeys[i] \in K
          THEN "\t" \o HeaderKeys[i] \o ": "
               \o (IF HeaderKeys[i] = "plural_count" THEN pluralCount
                   ELSE HeaderValues[HeaderKeys[i]]) \o "\n"
          ELSE "")
         \o headerText(K, i + 1, pluralCount)

AllKeys == {HeaderKeys[i] : i \in 1..Len(HeaderKeys)}

HeaderFile(K, pluralCount) == "<header>\n" \o headerText(K, 1, pluralCount)

GoodHeader == HeaderFile(AllKeys, "2")

\* the file of the prior parse, in Windows format
PriorFile ==
    replaceCpy(GoodHeader
               \o "\n<source> a\n<target> b\n"
               \o "\n<source> c\n<target> <empty>\n"
               \o "\n<source>\n\t<pluralform> 1 f\n\t<pluralform> %x f\n"
               \o "<target>\n\t<pluralform> 1 d\n\t<pluralform> %x d\n",
               "\n", "\r\n")

\* the original texts the caller adds: keys of the prior file, new keys, a key
\* with trailing whitespace and a plural pair without placeholder
SingularKeys == {"a", "c", "n", "k "}

PluralKeys == {<<"1 f", "%x f">>, <<"1 g", "g">>}

\* the headers the caller passes to generateLng, given the parsed header h
GenHeaders(h) ==
    {h,
     [h EXCEPT !.languageName = "D"],
     [h EXCEPT !.languageName = " E"],
     [h EXCEPT !.translatorName = "Z\rY"],
     [h EXCEPT !.pluralCount = 1, !.pluralDefinition = RuleOneForm]}

\* the values of plural_count in a header: integers and values that are none
PluralCounts == {"2", "1", "+2", "", "x", "2x"}

NonIntegers == {"", "x", "2x"}

\* a file whose header has whitespace around a value and whose texts have
\* several lines
MultiLineFile ==
    replaceCpy(GoodHeader, "language: E", "language:  E \t")
    \o "\n<source> a\nb\n\n<target> \tc\nd \n"
    \o "\n<source>\n\t<pluralform> 1 f\ng\n\t<pluralform> %x f\ng\n"
    \o "<target>\n\t<pluralform> 1 d\ne\n\t<pluralform> %x d\ne\n\n"

\* files with entries after the good header, and files that do not start with
\* the header, written with LF line breaks
EntryFiles ==
    {GoodHeader \o "\n<source> a\n<target> b\n\n<source> c\n<target> <empty>\n",
     BYTE_ORDER_MARK_UTF8 \o GoodHeader \o "\n<source> a\n<target> b\n",
     GoodHeader \o "\n<source> a\n<target> b\n\n<source> c\n<target>\n",
     GoodHeader \o "\n<source> a\n<target> b\n<target> c\n",
     GoodHeader \o "\n<source> a\n<target> b\n\nstray\n\n<source> c\n<target> d\n",
     GoodHeader \o "\n<source> a\n\n<source> c\n<target> d\n",
     GoodHeader \o "\n<source>\n<target> b\n",
     GoodHeader \o "\n<source> a.\n<target> b\n\n",
     GoodHeader \o "\nstray\n\n<source> a\n<target> b\n",
     GoodHeader \o "\n<source>\n\t<pluralform> 1 f\n\t<pluralform> %x f\n"
                \o "<target>\n\t<pluralform> 1 d\n\t<pluralform> %x d\n",
     GoodHeader \o "\n<source> a\n<target> b\n"
                \o "\n<source>\n\t<pluralform> 1 f\n\t<pluralform> %x f\n"
                \o "<target>\n\t<pluralform> 1 d\n\n",
     GoodHeader \o "\n<source>\n\t<pluralform> 1 f\n\t<pluralform> %x f\n"
                \o "<target>\n\t<pluralform>\n<source>",
     GoodHeader \o "\n<source>\n\t<pluralform> 1 f\n\n<target> <empty>\n",
     GoodHeader \o "\n<source>\n\t<pluralform> 1 f\n\t<pluralform> %x f\n<target>\n",
     GoodHeader \o "\n<source>\n\t<pluralform> 1 f\n\t<pluralform> %x f\n<target>\n"
                \o "\n<source> a\n<target> b\n",
     GoodHeader \o "\n<source>\n\t<pluralform> 1 f\n\t<pluralform> %x f\n"
                \o "<target>\n\t<pluralform> 1 d\n\t<pluralform> %x d\n<empty>\n",
     GoodHeader \o "\n<source> a\n<target> <empty> <empty>\n",
     GoodHeader \o "\n<empty>\n",
     MultiLineFile,
     GoodHeader \o "\n<source>\n\t<pluralform>\n\t<pluralform> %x f\n<target> <empty>\n",
     GoodHeader \o "\n<source> a <b>\n<target> c <d\n\n<source> <sourc\n<target> <empty>\n",
     "x\n" \o GoodHeader,
     "<header>\n<header>\n",
     "<header>\n",
     "\n\n",
     ""}

\* the line-break conventions of an input file
Conventions == {"\n", "\r\n", "\r"}

\* a header whose text has a line but none of the six keys
NoKeyHeader == "<header>\n\tnote: n\n"

\* headers that lack keys or have a plural count the rule does not fit, with
\* bytes after the header text
CutHeaderFiles ==
    {HeaderFile({"language", "locale"}, "2") \o "\n<source> a\n<target> b\n",
     HeaderFile(AllKeys \ {"translator"}, "2") \o "<empty>\n",
     HeaderFile(AllKeys \ {"language"}, "2") \o "\n<pluralform> x",
     NoKeyHeader \o "\n<source> a\n<target> b\n",
     HeaderFile(AllKeys, "1") \o "\n<source> a\n<target> b\n",
     HeaderFile(AllKeys, "x") \o "\n<source> a\n<target> b\n"}

\* the header of GoodHeader as parseHeader reads it, and a header with the
\* one-form rule
TwoFormHeader ==
    [languageName |-> "E", translatorName |-> "Z", locale |-> "e", flagFile |-> "i",
     pluralCount |-> 2, pluralDefinition |-> RuleTwoForms]

OneFormHeader == [TwoFormHeader EXCEPT !.pluralCount = 1, !.pluralDefinition = RuleOneForm]

\* singular entries <<original, translation>> for the rules of validation: for
\* each rule entries that keep it and entries that break it, translated and not
SingularCases ==
    {<<"%x a &b &c ffs_gui .", "">>, <<"a&", "">>, <<"a~", "">>, <<"a", "b~">>,
     <<"a %x", "b %x">>, <<"a %x", "b">>, <<"a %y", "b">>, <<"a %z %x", "b %x">>,
     <<"a %x %y", "b">>, <<"~%x", "b">>, <<"a", "b %x">>,
     <<"a\nb", "c\nd">>, <<"a", "c\nd">>,
     <<"&a", "&b">>, <<"&a", "&&b">>, <<"&a &b", "&c &d">>, <<"a&", "b&">>,
     <<"a", "b&">>, <<"a&&", "b&&">>, <<"a&&&", "b&&&">>, <<"&&a", "b">>,
     <<"a:", "b:">>, <<"a:", "b^C_">>, <<"a:", "b">>, <<"a^C_", "b">>,
     <<"a^C_", "b:">>, <<"a.", "b^P_">>, <<"a^H_", "b">>, <<"a..", "b">>,
     <<"a...", "b^E_">>, <<"a...", "b">>, <<"a^E_", "b.">>,
     <<"ffs_real", "b">>, <<"ffs_real", "ffs_real b">>, <<"ffs_gui", "b">>,
     <<"a", "b !">>, <<"a ;", "b">>}

\* plural entries <<original pair, forms>> parsed under the two-form rule
PluralCases ==
    {<<<<"1 f", "%x f">>, << >>>>, <<<<"1 g", "g">>, << >>>>, <<<<"1 g", "g">>, <<"1 d">>>>,
     <<<<"& 1 f .", "%x f">>, << >>>>, <<<<"1 f~", "%x f">>, << >>>>,
     <<<<"1 f", "%x f">>, <<"1 d">>>>, <<<<"1 f", "%x f">>, <<"1 d", "%x d", "%x e">>>>,
     <<<<"1 f~", "%x f">>, <<"1 d">>>>,
     <<<<"1 f", "%x f">>, <<"un d", "%x d">>>>, <<<<"one f", "%x f">>, <<"un d", "%x d">>>>,
     <<<<"%x f", "%x fs">>, <<"%x d", "%x ds">>>>, <<<<"%x f", "%x fs">>, <<"1 d", "%x ds">>>>,
     <<<<"%x f", "%x fs">>, <<"un d", "%x ds">>>>,
     <<<<"1 f", "%x f">>, <<"1 d", "d">>>>, <<<<"one f", "%x f">>, <<"un d", "d">>>>,
     <<<<"one f", "%x f">>, <<"d", "d">>>>,
     <<<<"1 f %y", "%x f %y">>, <<"1 d %y", "%x d">>>>,
     <<<<"&1 f", "&%x f">>, <<"&1 d", "&%x d">>>>, <<<<"&1 f", "&%x f">>, <<"1 d", "%x d">>>>,
     <<<<"1 f&&&", "%x f&&&">>, <<"1 d&&&", "%x d&&&">>>>,
     <<<<"1 f&", "%x f&">>, <<"1 d&", "%x d&">>>>,
     <<<<"1 f:", "%x f:">>, <<"1 d:", "%x d^C_">>>>, <<<<"1 f:", "%x f:">>, <<"1 d:", "%x d">>>>,
     <<<<"1 f^C_", "%x f^C_">>, <<"1 d", "%x d">>>>,
     <<<<"1 f.", "%x f.">>, <<"1 d^H_", "%x d.">>>>, <<<<"1 f.", "%x f.">>, <<"1 d.", "%x d">>>>,
     <<<<"1 f...", "%x f...">>, <<"1 d^E_", "%x d...">>>>,
     <<<<"1 f...", "%x f...">>, <<"1 d...", "%x d">>>>,
     <<<<"1 ffs_real", "%x ffs_real">>, <<"1 d", "%x d">>>>,
     <<<<"1 ffs_real", "%x ffs_real">>, <<"1 ffs_real", "%x ffs_real">>>>,
     <<<<"1 ffs_gui", "%x ffs_gui">>, <<"1 ffs_gui", "%x d">>>>,
     <<<<"1 ffs_tmp", "%x ffs_tmp">>, <<"1 ffs_tmp", "%x ffs_tmp">>>>}

\* plural entries parsed under the one-form rule
OneFormCases ==
    {<<<<"1 f", "%x f">>, <<"%x d">>>>, <<<<"1 f", "%x f">>, <<"1 d", "%x d">>>>,
     <<<<"1 f", "%x f">>, <<"d">>>>, <<<<"1 f", "%x f">>, << >>>>}

\* the files of these entries, written as generateLng writes them
ValidationFiles ==
    {headerLines(TwoFormHeader) \o onTrans(c[1], c[2]) \o "\n" : c \in SingularCases}
    \cup {headerLines(TwoFormHeader) \o onPluralTrans(c[1], c[2]) \o "\n" : c \in PluralCases}
    \cup {headerLines(OneFormHeader) \o onPluralTrans(c[1], c[2]) \o "\n" : c \in OneFormCases}

\* files that mix the line-break conventions: a Mac header before LF entries
\* the last of which is cut short, and LF lines around texts with a lone CR
MixedFiles ==
    {replaceCpy(GoodHeader, "\n", "\r") \o "\n<source> a\n<target> b\n\n<source> c\n<target>\n",
     GoodHeader \o "\n<source> a\rb\n\n<target> c\rd\n"}

\* files of several entries: valid and invalid ones in different orders, and
\* entries that repeat a key
EntrySequences ==
    LET ab   == SingularItem("a", "b")
        c    == SingularItem("c", "")
        noX  == SingularItem("a %x", "b")
        noCo == SingularItem("e:", "b")
        fd   == PluralItem(<<"1 f", "%x f">>, <<"1 d", "%x d">>)
        f1   == PluralItem(<<"1 g", "%x g">>, <<"1 d">>)
        a0   == SingularItem("a", "")
        ad   == SingularItem("a", "d")
        aBad == SingularItem("a", "d !")
        f0   == PluralItem(<<"1 f", "%x f">>, << >>)
        fe   == PluralItem(<<"1 f", "%x f">>, <<"1 e", "%x e">>)
    IN  {<<ab, noX, noCo>>, <<noCo, noX>>, <<ab, fd, f1, noX>>, <<f1, ab>>, <<ab, c, fd>>,
         <<noX>>, <<c, noCo, fd>>,
         <<a0, ab>>, <<ab, ad, a0>>, <<ab, aBad>>, <<f0, fd>>, <<fd, fe, f0>>, <<fd, ab, fd>>}

\* the file of a sequence of entries, written as generateLng writes it
SequenceText(seq) == headerLines(TwoFormHeader) \o visitItems(seq, FALSE, FALSE)

SequenceFiles == {SequenceText(seq) \o "\n" : seq \in EntrySequences}

\* the byte streams given to parseLng and parseHeader
ParseInputs ==
    {HeaderFile(K, "2") : K \in SUBSET AllKeys}
    \cup {NoKeyHeader}
    \cup {HeaderFile(AllKeys, v) : v \in PluralCounts}
    \cup {replaceCpy(f, "\n", c) : f \in EntryFiles, c \in Conventions}
    \cup ValidationFiles
    \cup MixedFiles
    \cup SequenceFiles
    \cup CutHeaderFiles

(***************************************************************************)
(* The state                                                               *)
(***************************************************************************)
VARIABLES
    byteStream,   \* the bytes given to the current parse call
    pos_,         \* Scanner::pos_
    tk_,          \* LngParser::tk_
    tkBegin,      \* the position of the first byte of tk_
    pluralInfo,   \* the evaluator parse() constructed
    header,       \* the caller's TransHeader
    out,          \* the caller's TranslationMap
    pluralOut,    \* the caller's TranslationPluralMap
    err,          \* the ParsingError thrown by the call, NoError when none
    pc,           \* where the caller is
    api,          \* the function called on byteStream: parseLng or parseHeader
    round,        \* 1: byteStream is the prior file, 2: it is generateLng's output
    fileOrder,    \* the keys of the entries parsed so far, in file order
    entry,        \* the texts parseRegular last passed to validateTranslation
    list,         \* the TranslationUnorderedList
    nAdds,        \* the number of addItem calls made
    firstAdds,    \* the keys passed to addItem, in the order of their first call
    genHeader,    \* the header passed to generateLng
    toTop,        \* the untranslatedToTop passed to generateLng
    assertOk,     \* whether generateLng's assertion held
    output,       \* the bytes generateLng returned
    output2       \* the bytes generated again from the reparsed output

parserVars == <<pos_, tk_, tkBegin, pluralInfo, err, api, fileOrder, entry>>

callerVars == <<header, out, pluralOut>>

listVars == <<list, nAdds, firstAdds>>

genVars == <<genHeader, toTop, assertOk, output>>

vars == <<byteStream, parserVars, callerVars, pc, round, listVars, genVars, output2>>

InitWith(stream) ==
    /\ byteStream = stream
    /\ pos_ = 0
    /\ tk_ = [type |-> "end", text |-> ""]
    /\ tkBegin = 0
    /\ pluralInfo = PluralFormInfo(RuleOneForm, 1)
    /\ header = TransHeader
    /\ out = EmptyMap
    /\ pluralOut = EmptyMap
    /\ err = NoError
    /\ pc = "start"
    /\ api = ""
    /\ round = 1
    /\ fileOrder = << >>
    /\ entry = NoArgs
    /\ list = TranslationUnorderedList(EmptyMap, EmptyMap)
    /\ nAdds = 0
    /\ firstAdds = << >>
    /\ genHeader = TransHeader
    /\ toTop = FALSE
    /\ assertOk = TRUE
    /\ output = ""
    /\ output2 = ""

Init == InitWith(PriorFile)

(***************************************************************************)
(* parseLng and parseHeader                                                *)
(***************************************************************************)
\* parseLng up to the entry loop: the maps are cleared, the parser is
\* constructed, the header is parsed and the evaluator is constructed
ParseLngBegin ==
    /\ pc = "start"
    /\ \E r \in {parseHeader(byteStream, LngParser(byteStream), header)} :
       LET validPlural == isValidPluralForm(r.header.pluralDefinition, r.header.pluralCount)
       IN  /\ out' = EmptyMap
           /\ pluralOut' = EmptyMap
           /\ header' = r.header
           /\ pos_' = r.P.pos
           /\ tk_' = r.P.tk
           /\ tkBegin' = r.P.begin
           /\ err' = IF r.err # NoError THEN r.err
                     ELSE IF ~validPlural
                     THEN ParsingError("Invalid plural form definition", byteStream, r.P)
                     ELSE NoError
           /\ pluralInfo' = IF r.err = NoError /\ validPlural
                            THEN PluralFormInfo(r.header.pluralDefinition, r.header.pluralCount)
                            ELSE pluralInfo
           /\ pc' = IF r.err = NoError /\ validPlural THEN "entries" ELSE "failed"
    /\ api' = "parseLng"
    /\ fileOrder' = << >>
    /\ entry' = NoArgs
    /\ UNCHANGED <<byteStream, round, listVars, genVars, output2>>

\* one iteration of the entry loop: parseRegular
ParseRegularStep ==
    /\ pc = "entries"
    /\ tk_.type # "end"
    /\ \E r \in {parseRegular(byteStream, [pos |-> pos_, tk |-> tk_, begin |-> tkBegin],
                              pluralInfo)} :
           /\ pos_' = r.P.pos
           /\ tk_' = r.P.tk
           /\ tkBegin' = r.P.begin
           /\ err' = r.err
           /\ pc' = IF r.err = NoError THEN "entries" ELSE "failed"
           /\ out' = IF r.kind = "singular" THEN emplace(out, r.orig, r.trans) ELSE out
           /\ pluralOut' = IF r.kind = "plural" THEN emplace(pluralOut, r.pair, r.forms)
                           ELSE pluralOut
           /\ fileOrder' = IF r.kind = "singular"
                           THEN Append(fileOrder, [kind |-> "singular", orig |-> r.orig])
                           ELSE IF r.kind = "plural"
                           THEN Append(fileOrder, [kind |-> "plural", pair |-> r.pair])
                           ELSE fileOrder
           /\ entry' = r.args
    /\ UNCHANGED <<byteStream, pluralInfo, header, api, round, listVars, genVars, output2>>

\* the entry loop ends at the end token and parseLng returns
ParseLngReturn ==
    /\ pc = "entries"
    /\ tk_.type = "end"
    /\ pc' = "done"
    /\ UNCHANGED <<byteStream, parserVars, callerVars, round, listVars, genVars, output2>>

\* header = parseHeader(byteStream): a local TransHeader is filled and returned
ParseHeaderCall ==
    /\ pc = "start"
    /\ round = 1
    /\ \E r \in {parseHeader(byteStream, LngParser(byteStream), TransHeader)} :
           /\ header' = IF r.err = NoError THEN r.header ELSE header
           /\ pos_' = r.P.pos
           /\ tk_' = r.P.tk
           /\ tkBegin' = r.P.begin
           /\ err' = r.err
           /\ pc' = IF r.err = NoError THEN "done" ELSE "failed"
    /\ api' = "parseHeader"
    /\ UNCHANGED <<byteStream, pluralInfo, out, pluralOut, round, fileOrder, entry,
                   listVars, genVars, output2>>

(***************************************************************************)
(* The collection and the generator                                        *)
(***************************************************************************)
\* TranslationUnorderedList(std::move(out), std::move(pluralOut))
NewList ==
    /\ pc = "done"
    /\ api = "parseLng"
    /\ round = 1
    /\ list' = TranslationUnorderedList(out, pluralOut)
    /\ out' = EmptyMap
    /\ pluralOut' = EmptyMap
    /\ pc' = "collect"
    /\ UNCHANGED <<byteStream, parserVars, header, round, nAdds, firstAdds, genVars, output2>>

noteAdd(key) ==
    IF \E i \in 1..Len(firstAdds) : firstAdds[i] = key THEN firstAdds
    ELSE Append(firstAdds, key)

AddItem ==
    /\ pc = "collect"
    /\ nAdds < MaxAdds
    /\ \E orig \in SingularKeys :
          /\ list' = addItem(list, orig)
          /\ firstAdds' = noteAdd([kind |-> "singular", orig |-> orig])
    /\ nAdds' = nAdds + 1
    /\ UNCHANGED <<byteStream, parserVars, callerVars, pc, round, genVars, output2>>

AddItemPlural ==
    /\ pc = "collect"
    /\ nAdds < MaxAdds
    /\ \E orig \in PluralKeys :
          /\ list' = addItemPlural(list, orig)
          /\ firstAdds' = noteAdd([kind |-> "plural", pair |-> orig])
    /\ nAdds' = nAdds + 1
    /\ UNCHANGED <<byteStream, parserVars, callerVars, pc, round, genVars, output2>>

GenerateLng ==
    /\ pc = "collect"
    /\ \E h \in GenHeaders(header), b \in BOOLEAN :
          /\ genHeader' = h
          /\ toTop' = b
          /\ assertOk' = generateAssert(generateText(list, h, b))
          /\ output' = generateLng(list, h, b)
    /\ pc' = "generated"
    /\ UNCHANGED <<byteStream, parserVars, callerVars, round, listVars, output2>>

\* the caller parses the generated bytes into fresh outputs
Reparse ==
    /\ pc = "generated"
    /\ byteStream' = output
    /\ round' = 2
    /\ header' = TransHeader
    /\ err' = NoError
    /\ pc' = "start"
    /\ UNCHANGED <<pos_, tk_, tkBegin, pluralInfo, api, fileOrder, entry, out, pluralOut,
                   listVars, genVars, output2>>

RECURSIVE addAll(_, _)
addAll(L, keys) ==
    IF keys = << >> THEN L
    ELSE addAll(IF Head(keys).kind = "singular" THEN addItem(L, Head(keys).orig)
                ELSE addItemPlural(L, Head(keys).pair),
                Tail(keys))

\* a new collection over the reparsed maps, its keys added in file order, is
\* generated with the reparsed header
Regenerate ==
    /\ pc = "done"
    /\ api = "parseLng"
    /\ round = 2
    /\ output2' = generateLng(addAll(TranslationUnorderedList(out, pluralOut), fileOrder),
                              header, toTop)
    /\ pc' = "regenerated"
    /\ UNCHANGED <<byteStream, parserVars, callerVars, round, listVars, genVars>>

NextParse == ParseLngBegin \/ ParseRegularStep \/ ParseLngReturn \/ ParseHeaderCall

Next ==
    \/ NextParse
    \/ NewList \/ AddItem \/ AddItemPlural \/ GenerateLng \/ Reparse \/ Regenerate

Spec == Init /\ [][Next]_vars

\* the parser alone, called on each of the input files
InitParse == \E stream \in ParseInputs : InitWith(stream)

SpecParse == InitParse /\ [][NextParse]_vars

\* the parser alone, its calls running on: parse and parseHeader are sequential
\* code that nothing suspends, so a step that can be taken is taken
SpecParseFair == SpecParse /\ WF_vars(NextParse)

(***************************************************************************)
(* Notions the properties are stated with                                  *)
(***************************************************************************)
\* the key of an item of sequence_, as firstAdds records it
keyOf(item) ==
    IF item.kind = "singular" THEN [kind |-> "singular", orig |-> item.orig]
    ELSE [kind |-> "plural", pair |-> item.pair]

addedKeys == {firstAdds[i] : i \in 1..Len(firstAdds)}

itemOf(key) ==
    list.sequence_[CHOOSE i \in 1..Len(list.sequence_) : keyOf(list.sequence_[i]) = key]

\* the maps a collection stands for
singularMapOf(seq) ==
    LET idx == {i \in 1..Len(seq) : seq[i].kind = "singular"}
    IN  [k \in {seq[i].orig : i \in idx} |->
            seq[CHOOSE i \in idx : seq[i].orig = k].trans]

pluralMapOf(seq) ==
    LET idx == {i \in 1..Len(seq) : seq[i].kind = "plural"}
    IN  [k \in {seq[i].pair : i \in idx} |->
            seq[CHOOSE i \in idx : seq[i].pair = k].forms]

hasTag(t) == \E i \in 1..Len(getList) : contains(t, tokens_[getList[i]])

\* a text as the scanner yields it: not empty, trimmed, LF only, no tag inside
ScannerText(t) == t # "" /\ trim(t) = t /\ ~contains(t, "\r") /\ ~hasTag(t)

\* a header field written on one line and read back unchanged
HeaderField(t) == trim(t) = t /\ ~contains(t, "\r") /\ ~contains(t, "\n") /\ ~hasTag(t)

SafeHeader(h) ==
    /\ HeaderField(h.languageName) /\ HeaderField(h.locale) /\ HeaderField(h.flagFile)
    /\ HeaderField(h.translatorName) /\ HeaderField(h.pluralDefinition)
    /\ isValidPluralForm(h.pluralDefinition, h.pluralCount)

\* an item whose key is a scanner text and which passes the validation of the
\* parser under the plural rule of the header h
SafeItem(item, h) ==
    IF item.kind = "singular"
    THEN ScannerText(item.orig) /\ validateSingular(item.orig, item.trans) = ""
    ELSE /\ ScannerText(item.pair[1]) /\ ScannerText(item.pair[2])
         /\ validatePlural(item.pair, item.forms,
                           PluralFormInfo(h.pluralDefinition, h.pluralCount)) = ""

SafeInputs ==
    /\ SafeHeader(genHeader)
    /\ \A i \in 1..Len(list.sequence_) : SafeItem(list.sequence_[i], genHeader)

\* the bytes generateLng returned have been parsed by parseLng
Reparsed == round = 2 /\ pc \in {"done", "failed", "regenerated"}

RoundTrip ==
    /\ pc # "failed"
    /\ header = genHeader
    /\ out = singularMapOf(list.sequence_)
    /\ pluralOut = pluralMapOf(list.sequence_)

\* every line break of s is CR LF
CrLfOnly(s) ==
    \A i \in 1..Len(s) :
        /\ At(s, i) = "\n" => i > 1 /\ At(s, i - 1) = "\r"
        /\ At(s, i) = "\r" => i < Len(s) /\ At(s, i + 1) = "\n"

itemTexts(item) ==
    IF item.kind = "singular" THEN {item.orig, item.trans}
    ELSE {item.pair[1], item.pair[2]} \cup {item.forms[i] : i \in 1..Len(item.forms)}

NoCarriageReturn ==
    /\ \A t \in {genHeader.languageName, genHeader.locale, genHeader.flagFile,
                 genHeader.translatorName, genHeader.pluralDefinition} : ~contains(t, "\r")
    /\ \A i \in 1..Len(list.sequence_) :
          \A t \in itemTexts(list.sequence_[i]) : ~contains(t, "\r")

\* the bytes that open the entry of a key in the output
entryMark(key) ==
    replaceCpy(IF key.kind = "singular"
               THEN tokens_["source"] \o " " \o key.orig \o "\n"
               ELSE "\t" \o tokens_["plural"] \o " " \o key.pair[1] \o "\n"
                    \o "\t" \o tokens_["plural"] \o " " \o key.pair[2] \o "\n",
               "\n", "\r\n")

\* the offset of the entry of a key in the output, Len(output) + 1 when absent
entryPos(key) ==
    With(entryMark(key), LAMBDA m :
        With(firstIn(1, Len(output) - Len(m) + 1,
                     LAMBDA i : SubSeq(output, i, i + Len(m) - 1) = m),
             LAMBDA at : IF at > Len(output) - Len(m) + 1 THEN Len(output) + 1 ELSE at))

\* the line breaks among the first pos bytes of a stream: CR LF, CR or LF
LineBreaksBefore(stream, pos) ==
    Cardinality({i \in 1..pos :
                    \/ At(stream, i) = "\n"
                    \/ At(stream, i) = "\r" /\ (i = Len(stream) \/ At(stream, i + 1) # "\n")})

\* the line breaks of a stream are all CR LF, all CR or all LF
OneConvention(stream) ==
    CrLfOnly(stream) \/ ~contains(stream, "\r") \/ ~contains(stream, "\n")

\* the first key of the fixed order that is not in K
firstMissing(K) ==
    HeaderKeys[firstIn(1, Len(HeaderKeys), LAMBDA i : HeaderKeys[i] \notin K)]

MsgCannotFind(name) == "Cannot find header item \"" \o name \o ":\""

(***************************************************************************)
(* Round trip and idempotence of generateLng                               *)
(***************************************************************************)
\* C1 as stated: for every header and every collection, parsing the bytes
\* generateLng returned succeeds and yields the header passed to generateLng
\* and exactly the items of the collection as the two maps.
C1RoundTripAnyInput == Reparsed => RoundTrip

\* C1 amended: when the fields of the header are trimmed one-line texts without
\* tags and its plural count and definition form a valid rule, and every key of
\* the collection is a non-empty trimmed text without CR and tags whose item
\* passes the validation of the parser under that rule, parsing the bytes
\* generateLng returned succeeds and yields the header and exactly the items of
\* the collection.
C1RoundTrip == Reparsed => (RoundTrip \/ ~SafeInputs)

C1Witness ==
    /\ Reparsed /\ SafeInputs /\ pc = "done" /\ toTop
    /\ genHeader.languageName = "D"
    /\ \E i, j, k \in 1..Len(list.sequence_) :
          /\ list.sequence_[i].kind = "singular" /\ list.sequence_[i].trans # ""
          /\ list.sequence_[j].kind = "singular" /\ list.sequence_[j].trans = ""
          /\ list.sequence_[k].kind = "plural" /\ list.sequence_[k].forms # << >>

\* C2 as stated: for every header and every collection, the bytes generated
\* from the reparsed maps and header, keys added in file order, equal the bytes
\* of the first generateLng call.
C2IdempotentAnyInput ==
    (round = 2 /\ pc \in {"failed", "regenerated"})
        => (pc = "regenerated" /\ output2 = output)

\* C2 amended: under the conditions of the amended round trip (header fields
\* trimmed one-line texts with a valid plural rule, keys non-empty trimmed texts
\* without CR and tags, items passing validation) the second output is
\* byte-identical to the first.
C2Idempotent ==
    (round = 2 /\ pc \in {"failed", "regenerated"})
        => ((pc = "regenerated" /\ output2 = output) \/ ~SafeInputs)

C2Witness ==
    /\ pc = "regenerated" /\ SafeInputs /\ output2 = output /\ toTop
    /\ Len(list.sequence_) >= 2
    /\ hasTranslation(list.sequence_[1]) /\ ~hasTranslation(list.sequence_[2])

(***************************************************************************)
(* The collection                                                          *)
(***************************************************************************)
C3AddedOnce ==
    \A key \in addedKeys :
        Cardinality({i \in 1..Len(list.sequence_) : keyOf(list.sequence_[i]) = key}) = 1

C3RepeatedAdd == (nAdds' = nAdds + 1 /\ firstAdds' = firstAdds) => list' = list

\* C3: after any sequence of addItem calls every key that was added is recorded
\* exactly once in sequence_, and an addItem call with a key added before
\* changes nothing of the collection: neither the sequence nor the translation
\* recorded at the first call.
C3AddIdempotent == [](C3AddedOnce) /\ [][C3RepeatedAdd]_vars

C3Witness ==
    /\ pc = "collect" /\ nAdds = 3 /\ Len(list.sequence_) = 1
    /\ hasTranslation(list.sequence_[1])

\* C4: the items of the collection are exactly the keys added; the translation
\* of an item is the value of the prior map for its key when that value is not
\* empty, and empty otherwise; a key of the prior maps that was not added is no
\* item and opens no entry of the bytes generateLng returns.
C4SeedingPruning ==
    pc \in {"collect", "generated"} =>
        /\ {keyOf(list.sequence_[i]) : i \in 1..Len(list.sequence_)} = addedKeys
        /\ \A i \in 1..Len(list.sequence_) :
              LET item == list.sequence_[i]
              IN  IF item.kind = "singular"
                  THEN item.trans = IF item.orig \in DOMAIN list.transOld_
                                    THEN list.transOld_[item.orig] ELSE ""
                  ELSE item.forms = IF item.pair \in DOMAIN list.transPluralOld_
                                    THEN list.transPluralOld_[item.pair] ELSE << >>
        /\ pc = "generated" =>
              /\ \A k \in DOMAIN list.transOld_ :
                    [kind |-> "singular", orig |-> k] \notin addedKeys
                        => entryPos([kind |-> "singular", orig |-> k]) > Len(output)
              /\ \A k \in DOMAIN list.transPluralOld_ :
                    [kind |-> "plural", pair |-> k] \notin addedKeys
                        => entryPos([kind |-> "plural", pair |-> k]) > Len(output)

C4Witness ==
    /\ pc = "generated"
    /\ "a" \in DOMAIN list.transOld_
    /\ [kind |-> "singular", orig |-> "a"] \notin addedKeys
    /\ \E i, j \in 1..Len(list.sequence_) :
          /\ list.sequence_[i].kind = "plural" /\ list.sequence_[i].forms # << >>
          /\ list.sequence_[j].kind = "singular"
          /\ list.sequence_[j].orig \notin DOMAIN list.transOld_

\* the offsets of the entries of the keys, in the order of the keys
RECURSIVE entryPositions(_)
entryPositions(keys) ==
    IF keys = << >> THEN << >>
    ELSE With(entryPos(Head(keys)), LAMBDA at : <<at>> \o entryPositions(Tail(keys)))

\* the entry of the key a comes before the entry of the key b in the output
EntryBefore(a, b) == entryPos(a) < entryPos(b) /\ entryPos(b) <= Len(output)

\* C5: with untranslatedToTop false the entries appear in the output in the
\* order of the first addItem call of their keys; with untranslatedToTop true
\* the entries without translation come before the entries with one, and the
\* entries of each group keep the order of their first addItem calls.
C5EntryOrder ==
    pc = "generated" =>
        With(entryPositions(firstAdds), LAMBDA at :
            /\ \A i \in 1..Len(firstAdds) : at[i] <= Len(output)
            /\ \A i, j \in 1..Len(firstAdds) :
                  LET top(k) == toTop /\ ~hasTranslation(itemOf(firstAdds[k]))
                  IN  (i < j) =>
                         IF top(i) = top(j) THEN at[i] < at[j]
                         ELSE IF top(i) THEN at[i] < at[j]
                         ELSE at[j] < at[i])

C5Witness ==
    /\ pc = "generated" /\ toTop /\ Len(firstAdds) = 3
    /\ hasTranslation(itemOf(firstAdds[1]))
    /\ ~hasTranslation(itemOf(firstAdds[2]))
    /\ ~hasTranslation(itemOf(firstAdds[3]))
    /\ EntryBefore(firstAdds[2], firstAdds[3])
    /\ EntryBefore(firstAdds[3], firstAdds[1])

C7NoPartialResult ==
    (api = "parseLng" /\ pc = "failed")
        => (header = TransHeader /\ out = EmptyMap /\ pluralOut = EmptyMap)

\* C8 as stated: the row of every error is the number of line breaks that
\* precede the first byte of the token at which the error is detected.
C8RowOfToken == err # NoError => err.row = LineBreaksBefore(byteStream, tkBegin)

\* C8 amended: on an input with one line-break convention the row of every
\* error is the number of line breaks that precede
\* the position of the scanner when the error is raised, which is the end of the
\* current token; for a text token that end is the start of the next tag or the
\* end of the file, so the line breaks inside and after the text are counted.
C8RowOfScanner ==
    (err # NoError /\ OneConvention(byteStream))
        => err.row = LineBreaksBefore(byteStream, pos_)

C8Witness ==
    /\ err # NoError
    /\ contains(byteStream, "\r")
    /\ err.row = LineBreaksBefore(byteStream, pos_)
    /\ err.row > LineBreaksBefore(byteStream, tkBegin)

\* C9: on a header with the lines of the keys K, parseHeader and parseLng read
\* the six fields when K holds all six keys, and otherwise throw the error that
\* names the first key missing in the order language, locale, image,
\* plural_count, plural_definition, translator.
C9MissingHeaderItem ==
    \A K \in SUBSET AllKeys :
        (byteStream = (IF K = {} THEN NoKeyHeader ELSE HeaderFile(K, "2")) /\ pc # "start") =>
            IF K = AllKeys
            THEN /\ err = NoError
                 /\ header = [languageName |-> "E", translatorName |-> "Z", locale |-> "e",
                              flagFile |-> "i", pluralCount |-> 2,
                              pluralDefinition |-> RuleTwoForms]
            ELSE pc = "failed" /\ err.msg = MsgCannotFind(firstMissing(K))

C9Witness ==
    /\ byteStream = HeaderFile({"language", "image", "translator"}, "2")
    /\ pc = "failed"
    /\ err.msg = MsgCannotFind("locale")

(***************************************************************************)
(* Validation of the entries                                               *)
(***************************************************************************)
\* the texts of the entry that was validated last, and whether it is
\* untranslated, and whether parseRegular emplaced it
entryOriginals ==
    IF entry.kind = "singular" THEN {entry.orig} ELSE {entry.pair[1], entry.pair[2]}

entryTranslations ==
    IF entry.kind = "singular" THEN {entry.trans}
    ELSE {entry.forms[i] : i \in 1..Len(entry.forms)}

Untranslated ==
    \/ entry.kind = "singular" /\ entry.trans = ""
    \/ entry.kind = "plural" /\ entry.forms = << >>

Translated ==
    \/ entry.kind = "singular" /\ entry.trans # ""
    \/ entry.kind = "plural" /\ entry.forms # << >>

Accepted == entry.kind # "none" /\ pc # "failed"

Rejected(msg) == pc = "failed" /\ err.msg = msg

ValidOriginals == \A t \in entryOriginals : t # "" /\ isValidUtf(t)

\* C11 as stated: an untranslated entry, singular or plural, is accepted
\* whenever its original texts are non-empty and valid UTF-8.
C11UntranslatedAnyOriginal == (Untranslated /\ ValidOriginals) => Accepted

\* C11 amended: an untranslated singular entry is accepted whenever its original
\* is non-empty and valid UTF-8; an untranslated plural entry is accepted
\* whenever its originals are non-empty and valid UTF-8 and the plural original
\* contains %x, and is rejected with the error of the missing %x otherwise.
C11UntranslatedExempt ==
    (Untranslated /\ ValidOriginals) =>
        IF entry.kind = "plural" /\ ~contains(entry.pair[2], "%x")
        THEN Rejected("Plural form source text does not contain %x placeholder")
        ELSE Accepted

C11Witness ==
    /\ Untranslated /\ ValidOriginals /\ Accepted
    /\ entry.kind = "singular"
    /\ contains(entry.orig, "%x") /\ contains(entry.orig, " .")
    /\ entry.orig \in DOMAIN out /\ out[entry.orig] = ""

Placeholders == <<"%x", "%y", "%z">>

MsgPlaceholder(ph) == "Placeholder " \o ph \o " missing in translation"

\* the placeholders of the original that the translation of the entry lacks
missingPlaceholders ==
    {i \in 1..Len(Placeholders) :
        contains(entry.orig, Placeholders[i]) /\ ~contains(entry.trans, Placeholders[i])}

\* every translated text of a singular map contains the placeholders of its
\* original
PlaceholdersKept ==
    \A o \in DOMAIN out :
        out[o] # "" =>
            \A i \in 1..Len(Placeholders) :
                contains(o, Placeholders[i]) => contains(out[o], Placeholders[i])

\* C12 as stated: a translated singular entry whose original contains a
\* placeholder that its translation lacks is rejected with the error that names
\* that placeholder, and the singular maps keep the placeholders.
C12PlaceholderEach ==
    /\ (entry.kind = "singular" /\ entry.trans # "") =>
           \A i \in missingPlaceholders : Rejected(MsgPlaceholder(Placeholders[i]))
    /\ PlaceholdersKept

\* C12 amended: a translated singular entry whose original contains a
\* placeholder that its translation lacks is rejected; when both texts are
\* valid UTF-8 the error names the first such placeholder in the order %x, %y,
\* %z; every non-empty translation of the singular map contains every
\* placeholder of its original.
C12PlaceholderFirst ==
    /\ (entry.kind = "singular" /\ entry.trans # "" /\ missingPlaceholders # {}) =>
           /\ pc = "failed"
           /\ (isValidUtf(entry.orig) /\ isValidUtf(entry.trans))
                 => err.msg = MsgPlaceholder(Placeholders[MinOf(missingPlaceholders)])
    /\ PlaceholdersKept

C12Witness ==
    /\ entry.kind = "singular" /\ entry.trans # ""
    /\ missingPlaceholders = {3}
    /\ Rejected(MsgPlaceholder("%z"))
    /\ entry.orig \notin DOMAIN out

\* the lone & characters of a text, the && pairs taken from the left: the runs
\* of & of odd length each hold one
loneAmps(s) ==
    Cardinality({i \in 1..Len(s) :
                    /\ At(s, i) = "&"
                    /\ (i = 1 \/ At(s, i - 1) # "&")
                    /\ (firstIn(i, Len(s), LAMBDA j : At(s, j) # "&") - i) % 2 = 1})

\* the last character of the text is a lone &
loneAmpAtEnd(s) ==
    (Len(s) - lastIn(1, Len(s), LAMBDA j : At(s, j) # "&")) % 2 = 1

\* C13: in every accepted entry with a translation the number of lone & is the
\* same in the original texts and in every translated text, it is 0 or 1, and
\* no original or translated text has a lone & as its last character.
C13AcceleratorMarker ==
    (Translated /\ Accepted) =>
        \A o \in entryOriginals :
            /\ loneAmps(o) <= 1
            /\ \A t \in entryOriginals \cup entryTranslations :
                   loneAmps(t) = loneAmps(o) /\ ~loneAmpAtEnd(t)

\* C14: in every accepted entry with a translation, when an original text ends
\* with a colon, a single period or an ellipsis, every translated text ends
\* with a member of the same class.
C14TrailingPunctuation ==
    (Translated /\ Accepted) =>
        /\ (\E o \in entryOriginals : endsWithColon(o))
              => \A t \in entryTranslations : endsWithColon(t)
        /\ (\E o \in entryOriginals : endsWithSingleDot(o))
              => \A t \in entryTranslations : endsWithSingleDot(t)
        /\ (\E o \in entryOriginals : endsWithEllipsis(o))
              => \A t \in entryTranslations : endsWithEllipsis(t)

\* C15: for every literal that the validation of singular entries protects, a
\* plural entry with forms whose singular or plural original contains the
\* literal and one of whose forms does not contain it is rejected.
C15FixedLiteralsPlural ==
    \A i \in 1..Len(FixedStrSingular) :
        (/\ entry.kind = "plural" /\ entry.forms # << >>
         /\ \E o \in entryOriginals : contains(o, FixedStrSingular[i])
         /\ \E t \in entryTranslations : ~contains(t, FixedStrSingular[i]))
            => pc = "failed"

MsgFormCount(actual, expected) ==
    "Invalid number of plural forms; actual: " \o numberTo(actual)
    \o ", expected: " \o numberTo(expected)

\* every translated entry of the plural map has header.pluralCount forms, none
\* of them empty
FormCountKept ==
    \A k \in DOMAIN pluralOut :
        pluralOut[k] # << >> =>
            /\ Len(pluralOut[k]) = header.pluralCount
            /\ \A i \in 1..Len(pluralOut[k]) : pluralOut[k][i] # ""

WrongFormCount ==
    entry.kind = "plural" /\ entry.forms # << >> /\ Len(entry.forms) # header.pluralCount

\* C16 as stated: the translated entries of the plural map have exactly
\* header.plural_count non-empty forms, and a plural entry with another
\* non-zero number of forms is rejected with the error of the invalid number of
\* plural forms.
C16FormCountError ==
    /\ api = "parseLng" => FormCountKept
    /\ WrongFormCount => Rejected(MsgFormCount(Len(entry.forms), header.pluralCount))

\* C16 amended: the translated entries of the plural map have exactly
\* header.plural_count non-empty forms; a plural entry with another non-zero
\* number of forms is rejected, with the error of the invalid number of plural
\* forms when all its texts are valid UTF-8 and its plural original contains
\* %x.
C16FormCount ==
    /\ api = "parseLng" => FormCountKept
    /\ WrongFormCount =>
           /\ pc = "failed"
           /\ ((\A t \in entryOriginals \cup entryTranslations : isValidUtf(t))
                  /\ contains(entry.pair[2], "%x"))
                 => err.msg = MsgFormCount(Len(entry.forms), header.pluralCount)

C16Witness ==
    /\ WrongFormCount
    /\ header.pluralCount = 2 /\ Len(entry.forms) = 1
    /\ Rejected(MsgFormCount(1, 2))
    /\ entry.pair \notin DOMAIN pluralOut

\* the form of slot i contains %x, or the first number of the slot
hasPlaceholder(i) == contains(entry.forms[i], "%x")

hasFirstNumber(i) == contains(entry.forms[i], numberTo(getFirstNumber(pluralInfo, i - 1)))

\* the original singular uses a decimal number
singularUsesNumber == contains(entry.pair[1], "%x") \/ contains(entry.pair[1], "1")

\* C17 as stated: in every accepted plural entry with forms, the form of a
\* single-number slot contains %x or the first number of the slot when the
\* original singular contains %x or "1"; in every other case the form
\* contains %x.
C17SlotOtherwisePlaceholder ==
    (entry.kind = "plural" /\ entry.forms # << >> /\ Accepted) =>
        \A i \in 1..Len(entry.forms) :
            IF isSingleNumberForm(pluralInfo, i - 1) /\ singularUsesNumber
            THEN hasPlaceholder(i) \/ hasFirstNumber(i)
            ELSE hasPlaceholder(i)

\* C17 amended: in every accepted plural entry with forms, the form of a slot
\* that is not single-number contains %x; the form of a single-number slot
\* contains %x or the first number of the slot when the original singular
\* contains %x or "1", and is not checked when it contains neither.
C17SlotRule ==
    (entry.kind = "plural" /\ entry.forms # << >> /\ Accepted) =>
        \A i \in 1..Len(entry.forms) :
            IF isSingleNumberForm(pluralInfo, i - 1)
            THEN singularUsesNumber => (hasPlaceholder(i) \/ hasFirstNumber(i))
            ELSE hasPlaceholder(i)

C17Witness ==
    /\ entry.kind = "plural" /\ Accepted
    /\ Len(entry.forms) = 2
    /\ isSingleNumberForm(pluralInfo, 0) /\ ~isSingleNumberForm(pluralInfo, 1)
    /\ singularUsesNumber
    /\ hasFirstNumber(1) /\ ~hasPlaceholder(1) /\ hasPlaceholder(2)

(***************************************************************************)
(* The grammar of the file                                                 *)
(***************************************************************************)
\* the types of the tokens of a stream, up to the end token
RECURSIVE tokenTypes(_, _)
tokenTypes(stream, pos) ==
    With(getNextToken(stream, pos), LAMBDA t :
        IF t.type = "end" THEN <<"end">>
        ELSE <<t.type>> \o tokenTypes(stream, t.pos))

\* The grammar as an automaton over the token types.  The places: "file" before
\* the header tag, "header" after it, "entry" where an entry or the end may
\* follow, "source", "text", "target" inside a singular entry, "p1".."p4" and
\* "ptarget" inside a plural entry, "form" after the tag of a form, "forms"
\* after the text of a form, "accept" after the end, "reject" otherwise.
\* zeroForms tells whether a plural target may have no forms and no <empty>.
grammarStep(place, type, zeroForms) ==
    LET entryStart == IF type = "source" THEN "source"
                      ELSE IF type = "end" THEN "accept" ELSE "reject"
        to(expected, next) == IF type = expected THEN next ELSE "reject"
    IN  CASE place = "file"    -> to("header", "header")
          [] place = "header"  -> to("text", "entry")
          [] place = "entry"   -> entryStart
          [] place = "source"  -> IF type = "text" THEN "text" ELSE to("plural", "p1")
          [] place = "text"    -> to("target", "target")
          [] place = "target"  -> IF type = "text" THEN "entry" ELSE to("empty", "entry")
          [] place = "p1"      -> to("text", "p2")
          [] place = "p2"      -> to("plural", "p3")
          [] place = "p3"      -> to("text", "p4")
          [] place = "p4"      -> to("target", "ptarget")
          [] place = "ptarget" -> IF type = "plural" THEN "form"
                                  ELSE IF type = "empty" THEN "entry"
                                  ELSE IF zeroForms THEN entryStart ELSE "reject"
          [] place = "form"    -> to("text", "forms")
          [] place = "forms"   -> IF type = "plural" THEN "form" ELSE entryStart
          [] OTHER             -> "reject"

RECURSIVE grammarRun(_, _, _)
grammarRun(types, place, zeroForms) ==
    IF types = << >> THEN place
    ELSE grammarRun(Tail(types), grammarStep(place, Head(types), zeroForms), zeroForms)

\* the token sequence of the stream is derivable from  file := header entry* END
Derivable(stream, zeroForms) ==
    grammarRun(tokenTypes(stream, ScannerInit(stream)), "file", zeroForms) = "accept"

\* parseLng has returned or thrown
ParseEnded == api = "parseLng" /\ pc \in {"done", "failed"}

\* the parse accepts or rejects the stream as the grammar does, the errors
\* other than "Unexpected token" left aside
ParsesAs(derivable) ==
    /\ pc = "done" => derivable
    /\ Rejected("Unexpected token") => ~derivable
    /\ ~derivable => pc = "failed"

\* C18 as stated: the parser accepts a token sequence exactly when it is
\* derivable from the grammar in which a plural target is <target> followed by
\* zero or more forms or by <empty>, and raises "Unexpected token" on no
\* derivable sequence.
C18GrammarZeroForms == ParseEnded => ParsesAs(Derivable(byteStream, TRUE))

\* C18 amended: the parser accepts a token sequence exactly when it is derivable
\* from the grammar in which a plural target is <target> followed by one or more
\* forms or by <empty>; a <target> of a plural entry that neither a form nor
\* <empty> follows raises "Unexpected token".
C18Grammar == ParseEnded => ParsesAs(Derivable(byteStream, FALSE))

C18Witness ==
    /\ ParseEnded
    /\ tokenTypes(byteStream, ScannerInit(byteStream))
          = <<"header", "text", "source", "plural", "text", "plural", "text", "target",
              "source", "text", "target", "text", "end">>
    /\ Rejected("Unexpected token")
    /\ tk_.type = "source"

(***************************************************************************)
(* Line breaks                                                             *)
(***************************************************************************)
\* the assertion of posRow
posRowAssert(stream, pos) ==
    LET crSum == countChar(SubSeq(stream, 1, pos), "\r")
        nlSum == countChar(SubSeq(stream, 1, pos), "\n")
    IN  crSum = 0 \/ nlSum = 0 \/ crSum = nlSum

\* C19: for every input, of one line-break convention or of a mix of them, the
\* row of an error is the number of line breaks before the position of the
\* scanner, CR LF, a lone CR and a lone LF counted once each, and the assertion
\* of posRow holds where the row is taken.
C19RowAnyConvention ==
    err # NoError =>
        /\ posRowAssert(byteStream, pos_)
        /\ err.row = LineBreaksBefore(byteStream, pos_)

\* a text without CR and without whitespace at its ends
Normalized(t) == ~contains(t, "\r") /\ trim(t) = t

\* the texts of the header and of the maps
memoryTexts ==
    {header.languageName, header.translatorName, header.locale, header.flagFile,
     header.pluralDefinition}
    \cup DOMAIN out \cup {out[o] : o \in DOMAIN out}
    \cup UNION {{k[1], k[2]} \cup {pluralOut[k][i] : i \in 1..Len(pluralOut[k])} :
                   k \in DOMAIN pluralOut}

\* the maps of MultiLineFile
MultiLineMaps ==
    /\ header.languageName = "E"
    /\ out = ("a\nb" :> "c\nd")
    /\ pluralOut = (<<"1 f\ng", "%x f\ng">> :> <<"1 d\ne", "%x d\ne">>)

\* C20: after every successful parse no text of the header or of the maps
\* contains CR or has whitespace at its ends, and a line break inside a text is
\* one LF whichever convention the input used.
C20NormalizedTexts ==
    pc = "done" =>
        /\ \A t \in memoryTexts : Normalized(t)
        /\ \A c \in Conventions :
              (api = "parseLng" /\ byteStream = replaceCpy(MultiLineFile, "\n", c))
                  => MultiLineMaps

C20Witness ==
    /\ pc = "done" /\ api = "parseLng"
    /\ byteStream = replaceCpy(MultiLineFile, "\n", "\r\n")
    /\ MultiLineMaps

(***************************************************************************)
(* The entries of a file                                                   *)
(***************************************************************************)
\* the error of an entry validated alone under the two-form rule, "" when it
\* is valid
verdict(item) ==
    IF item.kind = "singular" THEN validateSingular(item.orig, item.trans)
    ELSE validatePlural(item.pair, item.forms, PluralFormInfo(RuleTwoForms, 2))

argsOf(item) ==
    IF item.kind = "singular" THEN SingularArgs(item.orig, item.trans)
    ELSE PluralArgs(item.pair, item.forms)

\* the maps of a sequence of entries, the first entry of a key kept
firstSingularMap(seq) ==
    LET idx == {i \in 1..Len(seq) : seq[i].kind = "singular"}
    IN  [k \in {seq[i].orig : i \in idx} |->
            seq[MinOf({i \in idx : seq[i].orig = k})].trans]

firstPluralMap(seq) ==
    LET idx == {i \in 1..Len(seq) : seq[i].kind = "plural"}
    IN  [k \in {seq[i].pair : i \in idx} |->
            seq[MinOf({i \in idx : seq[i].pair = k})].forms]

invalidEntries(seq) == {i \in 1..Len(seq) : verdict(seq[i]) # ""}

\* the offset of the <source> tag of entry k of the file of seq
entryBegin(seq, k) == Len(SequenceText(SubSeq(seq, 1, k - 1))) + 2

\* the parse of the file of seq has stopped at its first invalid entry k with
\* the error of that entry, and the maps hold the entries before k
StoppedAt(seq, k) ==
    /\ Rejected(verdict(seq[k]))
    /\ entry = argsOf(seq[k])
    /\ out = firstSingularMap(SubSeq(seq, 1, k - 1))
    /\ pluralOut = firstPluralMap(SubSeq(seq, 1, k - 1))

AllStored(seq) ==
    pc = "done" /\ out = firstSingularMap(seq) /\ pluralOut = firstPluralMap(seq)

\* C21 as stated: the error of a file is the error that its first invalid entry
\* has when validated alone, the maps hold the entries before it, and nothing
\* of a later entry is scanned: the scanner is not past the start of the next
\* entry.
C21NothingLaterScanned ==
    \A seq \in EntrySequences :
        (byteStream = SequenceText(seq) \o "\n" /\ ParseEnded) =>
            IF invalidEntries(seq) = {} THEN AllStored(seq)
            ELSE With(MinOf(invalidEntries(seq)), LAMBDA k :
                    /\ StoppedAt(seq, k)
                    /\ k < Len(seq) => pos_ <= entryBegin(seq, k + 1))

\* C21 amended: the error of a file is the error that its first invalid entry
\* has when validated alone, and the maps hold the entries before it; no later
\* entry is validated or stored, and of the next entry only the <source> tag
\* has been scanned, as the current token, when the error is raised.
C21FirstInvalidEntry ==
    \A seq \in EntrySequences :
        (byteStream = SequenceText(seq) \o "\n" /\ ParseEnded) =>
            IF invalidEntries(seq) = {} THEN AllStored(seq)
            ELSE With(MinOf(invalidEntries(seq)), LAMBDA k :
                    /\ StoppedAt(seq, k)
                    /\ IF k < Len(seq)
                       THEN /\ tk_.type = "source"
                            /\ tkBegin = entryBegin(seq, k + 1)
                            /\ pos_ = tkBegin + Len(tokens_["source"])
                       ELSE tk_.type = "end" /\ pos_ = Len(byteStream))

C21Witness ==
    /\ ParseEnded
    /\ \E seq \in EntrySequences :
          /\ byteStream = SequenceText(seq) \o "\n"
          /\ Cardinality(invalidEntries(seq)) = 2
          /\ MinOf(invalidEntries(seq)) = 2
          /\ StoppedAt(seq, 2)
          /\ DOMAIN out = {"a"}

(***************************************************************************)
(* The tokens of the scanner                                               *)
(***************************************************************************)
\* the tokens the scanner returns on a stream, up to the end token
RECURSIVE tokenList(_, _)
tokenList(stream, pos) ==
    With(getNextToken(stream, pos), LAMBDA t :
        IF t.type = "end" THEN <<t>>
        ELSE <<t>> \o tokenList(stream, t.pos))

\* every text token has a text and begins with a byte that is no whitespace,
\* and the end token is returned at the end of the stream only
TextTokensNotEmpty(stream) ==
    With(tokenList(stream, ScannerInit(stream)), LAMBDA tokens :
        \A i \in 1..Len(tokens) :
            /\ tokens[i].type = "text" =>
                  /\ tokens[i].text # ""
                  /\ ~isWhiteSpace(At(stream, tokens[i].begin + 1))
            /\ tokens[i].type = "end" => tokens[i].begin = Len(stream))

\* files with an entry that has no original text
NoOriginalFiles ==
    {GoodHeader \o "\n<source>\n<target> b\n",
     GoodHeader \o "\n<source>\n\t<pluralform>\n\t<pluralform> %x f\n<target> <empty>\n"}

\* C22: the scanner returns no text token with an empty text, every text token
\* begins with a byte that is no whitespace, the end token is returned at the
\* end of the stream only, no parse raises "Translation source text is empty",
\* and an entry without original text raises "Unexpected token".
C22NoEmptyText ==
    /\ pc = "start" => TextTokensNotEmpty(byteStream)
    /\ tk_.type = "text" => tk_.text # ""
    /\ err.msg # "Translation source text is empty"
    /\ entry.kind # "none" => \A t \in entryOriginals : t # ""
    /\ \A f \in NoOriginalFiles, c \in Conventions :
          (byteStream = replaceCpy(f, "\n", c) /\ ParseEnded)
              => Rejected("Unexpected token")

C22Witness ==
    /\ ParseEnded
    /\ \E f \in NoOriginalFiles : byteStream = f
    /\ Rejected("Unexpected token")
    /\ tk_.type = "plural"
    /\ entry.kind = "none"

\* the iteration orders of the tag table
getListOrders ==
    {[i \in 1..Len(getList) |-> getList[f[i]]] : f \in Permutations(1..Len(getList))}

\* the tags that the stream has at p
tagsAt(stream, p) ==
    {getList[i] : i \in {j \in 1..Len(getList) : startsWithAt(stream, p, tokens_[getList[j]])}}

\* the tag of T that a loop over the table in the given order finds first
firstMatch(order, T) == order[firstIn(1, Len(order), LAMBDA i : order[i] \in T)]

\* no tag is a prefix of another tag
PrefixFree ==
    \A a \in DOMAIN tokens_, b \in DOMAIN tokens_ :
        a # b => ~startsWith(tokens_[a], tokens_[b])

\* at every position at most one tag matches, and every iteration order of
\* the table finds the tag that the order getList finds
OneTagEverywhere(stream) ==
    \A p \in 0..(Len(stream) - 1) :
        With(tagsAt(stream, p), LAMBDA T :
            /\ Cardinality(T) <= 1
            /\ T # {} => \A order \in getListOrders :
                             firstMatch(order, T) = firstMatch(getList, T))

NoTagInText(stream) ==
    With(tokenList(stream, ScannerInit(stream)), LAMBDA tokens :
        \A i \in 1..Len(tokens) : tokens[i].type = "text" => ~hasTag(tokens[i].text))

\* C23: no tag is a prefix of another, at every position of every input at
\* most one tag matches, every iteration order of the tag table yields the
\* same token at every position, and no text token contains a tag.
C23OrderIndependent ==
    /\ PrefixFree
    /\ pc = "start" => (OneTagEverywhere(byteStream) /\ NoTagInText(byteStream))
    /\ ~hasTag(tk_.text)

C23Witness ==
    /\ pc = "done" /\ api = "parseLng"
    /\ out = ("a <b>" :> "c <d") @@ ("<sourc" :> "")
    /\ OneTagEverywhere(byteStream)
    /\ \E p \in 0..(Len(byteStream) - 1) : tagsAt(byteStream, p) = {"empty"}

(***************************************************************************)
(* Repeated keys                                                           *)
(***************************************************************************)
\* the key of the entry validated by the step is a key of the map already
RepeatedKey ==
    \/ entry'.kind = "singular" /\ entry'.orig \in DOMAIN out
    \/ entry'.kind = "plural" /\ entry'.pair \in DOMAIN pluralOut

\* the error of the validation of the entry validated by the step
stepVerdict ==
    IF entry'.kind = "singular" THEN validateSingular(entry'.orig, entry'.trans)
    ELSE validatePlural(entry'.pair, entry'.forms, pluralInfo)

\* an iteration of the entry loop on an entry whose key the map has: the entry
\* is validated as any other, and the maps stay as they are
RepeatedKeyStep ==
    (pc = "entries" /\ tk_.type # "end" /\ RepeatedKey) =>
        /\ pc' = (IF stepVerdict = "" THEN "entries" ELSE "failed")
        /\ err'.msg = stepVerdict
        /\ out' = out
        /\ pluralOut' = pluralOut

\* after a successful parse of a file of entries the maps hold, for every key,
\* the translation of its first entry
FirstOccurrenceKept ==
    \A seq \in EntrySequences :
        (byteStream = SequenceText(seq) \o "\n" /\ api = "parseLng" /\ pc = "done")
            => (out = firstSingularMap(seq) /\ pluralOut = firstPluralMap(seq))

\* C24: a file that holds a key more than once is not rejected for that; each
\* entry of the key is validated, and the map holds the translation of the
\* first one, which no later entry overwrites, also when it is empty.
C24FirstOccurrence == [](FirstOccurrenceKept) /\ [][RepeatedKeyStep]_vars

C24Witness ==
    /\ pc = "done" /\ api = "parseLng"
    /\ Len(fileOrder) = 2
    /\ fileOrder[1] = fileOrder[2]
    /\ entry = SingularArgs("a", "b")
    /\ out = ("a" :> "")

(***************************************************************************)
(* parseHeader and the bytes after the header text                         *)
(***************************************************************************)
\* the position at which the header text ends: that of the tag after it, or
\* the end of the stream; the end of the stream when there is no header text
headerTextEnd(stream) ==
    With(LngParser(stream), LAMBDA P0 :
    IF P0.tk.type # "header" THEN Len(stream)
    ELSE With(nextToken(stream, P0), LAMBDA P1 :
         IF P1.tk.type # "text" THEN Len(stream) ELSE P1.pos))

\* the stream without the bytes after the header text
headerOnly(stream) == SubSeq(stream, 1, headerTextEnd(stream))

\* the header tag, the header text and the six items are there
headerComplete(stream) ==
    With(LngParser(stream), LAMBDA P0 :
    /\ P0.tk.type = "header"
    /\ With(nextToken(stream, P0), LAMBDA P1 :
            /\ P1.tk.type = "text"
            /\ AllKeys \subseteq DOMAIN headerItems(split2(P1.tk.text), EmptyMap)))

\* parseHeader has returned or thrown
HeaderEnded == api = "parseHeader" /\ pc \in {"done", "failed"}

\* the length of the tag that is the current token, 0 for the end token
tagLength == IF tk_.type \in DOMAIN tokens_ THEN Len(tokens_[tk_.type]) ELSE 0

\* parseHeader succeeds when the header is complete, whatever the plural rule
\* and the entries are, and parse returns the header parseHeader returns
HeaderAlone ==
    /\ HeaderEnded => (pc = "done" <=> headerComplete(byteStream))
    /\ (api = "parseLng" /\ pc = "done" /\ round = 1) =>
           \E r \in {parseHeader(byteStream, LngParser(byteStream), TransHeader)} :
               r.err = NoError /\ r.header = header

ScannerAdvances(stream) ==
    \A p \in 0..Len(stream) :
        \E t \in {getNextToken(stream, p)} :
            /\ p <= t.pos /\ t.pos <= Len(stream)
            /\ t.pos > p \/ (t.type = "end" /\ t.pos = Len(stream))
            /\ t.type = "end" => t.pos = Len(stream)
            /\ p = Len(stream) => t.type = "end"

\* a step of the parser does not move the position backward or past the end,
\* and an iteration of the entry loop that does not throw consumes a token
LoopAdvances ==
    /\ pos_ <= pos_' /\ pos_' <= Len(byteStream)
    /\ (pc = "entries" /\ tk_.type # "end" /\ pc' # "failed") =>
           (pos_ < pos_' /\ tkBegin < tkBegin')

Terminated == pc \in {"done", "failed"}

\* C26: parse terminates on every input: a call of getNextToken moves the
\* position forward or returns the end token with the position at the end of
\* the stream, never backward or past the end, and from then on returns the
\* end token; an iteration of the entry loop consumes a token or throws; every
\* call of parse and of parseHeader returns or throws.
C26Terminates ==
    /\ [](pc = "start" => ScannerAdvances(byteStream))
    /\ [][LoopAdvances]_vars
    /\ <>Terminated

C26Witness ==
    /\ api = "parseLng" /\ pc = "done"
    /\ Len(fileOrder) = 3
    /\ tk_.type = "end"
    /\ pos_ = Len(byteStream)
    /\ getNextToken(byteStream, pos_).type = "end"

=============================================================================
